---- MODULE Spec2Model ----
(***************************************************************************)
(* Model of the document ingestion core of AgenticRAG:                     *)
(*   backend/app/services/document_processor.py  (DocumentProcessor)       *)
(*   backend/app/services/rag_service.py         (RAGService)              *)
(*                                                                         *)
(* Eight specifications share the variables:                               *)
(*   SpecChunk   one call of DocumentProcessor._chunk_text, one loop       *)
(*               iteration per step, for every text and every              *)
(*               (chunk_size, chunk_overlap) within the bounds;            *)
(*   Spec        RAGService.add_document calls against the vector store,   *)
(*               with the processor RAGService.__init__ constructs;        *)
(*   SpecShared  the same calls made by several service processes on one   *)
(*               persistent collection, their batches interleaved;         *)
(*   SpecExtract one call of _process_pdf, _process_docx or _process_csv   *)
(*               on every enumerated file;                                 *)
(*   SpecAsk     RAGService.query on a seeded collection followed by       *)
(*               RAGService.generate_response;                             *)
(*   SpecService add_document, delete_document and query calls in every    *)
(*               order on a seeded collection;                             *)
(*   SpecRound   one ingestion of every text within the bounds followed    *)
(*               by substring queries on a collection that ranks by        *)
(*               containment;                                              *)
(*   SpecBatches a file of three batches ingested while other processes    *)
(*               ingest and query.                                         *)
(***************************************************************************)
EXTENDS Integers, Sequences, FiniteSets, TLC

VARIABLES
    chunk_size,     \* DocumentProcessor.chunk_size
    chunk_overlap,  \* DocumentProcessor.chunk_overlap
    text,           \* argument of _chunk_text
    cpc,            \* position in _chunk_text: "call", "while", "done"
    start,          \* local start
    end,            \* local end
    chunks,         \* local chunks
    windows,        \* history of the (start, end) pairs sliced so far
    store,          \* the Chroma collection: records in insertion order
    call,           \* per request: the add_document activation
    next_uuid,      \* number of uuid4 values drawn so far
    add_log,        \* history of collection.add calls
    clock,          \* datetime.utcnow()
    ex,             \* the activation of one extractor (_process_pdf / _docx / _csv)
    load_truncated, \* PIL.ImageFile.LOAD_TRUNCATED_IMAGES, process-wide
    qr,             \* the activation of query followed by generate_response
    del_call        \* the latest delete_document call and how many there were

chunk_vars == <<text, cpc, start, end, chunks, windows>>
proc_vars  == <<chunk_size, chunk_overlap>>
rag_vars   == <<store, call, next_uuid, add_log, clock>>
ext_vars   == <<ex, load_truncated>>
ask_vars   == <<qr>>
del_vars   == <<del_call>>
vars       == <<chunk_size, chunk_overlap, text, cpc, start, end, chunks,
                windows, store, call, next_uuid, add_log, clock, ex,
                load_truncated, qr, del_call>>

-----------------------------------------------------------------------------
(* Bounds of the model *)

MaxLen == 6         \* longest enumerated text
MaxSize == 4        \* largest enumerated chunk_size
MaxOverlap == 4     \* largest enumerated chunk_overlap
MaxIter == 8        \* loop iterations explored of a call that does not end

(* Program constants *)

DefaultChunkSize == 1000
DefaultChunkOverlap == 200

Alphabet == {"a", "b"}

Min(a, b) == IF a <= b THEN a ELSE b

CeilDiv(a, b) == (a + b - 1) \div b

-----------------------------------------------------------------------------
(* DocumentProcessor._chunk_text *)

\* a slice bound as Python reads it: a negative one counts from the end, and
\* the result is clamped to 0..n
SliceIndex(a, n) == IF a < 0 THEN (IF n + a < 0 THEN 0 ELSE n + a) ELSE Min(a, n)

\* text[a:b]
PySlice(t, a, b) == SubSeq(t, SliceIndex(a, Len(t)) + 1, SliceIndex(b, Len(t)))

WindowEnd_NoClamp(st, size, len) == st + size

WindowEnd_Short(st, size, len) == Min(st + size - 1, len)

\* end = min(start + self.chunk_size, text_length)
WindowEnd(st, size, len) == Min(st + size, len)

StepBack_NoCap(size, overlap) == overlap

StepBack_Half(size, overlap) == size \div 2

StepBack_None(size, overlap) == 0

\* min(self.chunk_overlap, self.chunk_size // 2)
StepBack(size, overlap) == Min(overlap, size \div 2)

\* the state of the call after "if not text: return []" and the initialisers
ChunkEnter(t) ==
    IF Len(t) = 0
    THEN [pc |-> "done",  start |-> 0, end |-> 0, chunks |-> <<>>, windows |-> <<>>]
    ELSE [pc |-> "while", start |-> 0, end |-> 0, chunks |-> <<>>, windows |-> <<>>]

\* one evaluation of the while statement: its test and, if true, its body
ChunkIter(t, size, overlap, s) ==
    IF s.start < Len(t)
    THEN LET e == WindowEnd(s.start, size, Len(t))
             c == Append(s.chunks, PySlice(t, s.start, e))
             w == Append(s.windows, <<s.start, e>>)
         IN  IF e = Len(t)
             THEN [pc |-> "done", start |-> s.start, end |-> e,
                   chunks |-> c, windows |-> w]
             ELSE [pc |-> "while", start |-> e - StepBack(size, overlap), end |-> e,
                   chunks |-> c, windows |-> w]
    ELSE [s EXCEPT !.pc = "done"]

\* the while loop: ChunkIter applied until the call is done, at most n times
\* (the first half of the iterations, then the rest)
RECURSIVE ChunkRun(_, _, _, _, _)
ChunkRun(t, size, overlap, s, n) ==
    IF s.pc = "done" \/ n = 0 THEN s
    ELSE IF n = 1 THEN ChunkIter(t, size, overlap, s)
    ELSE ChunkRun(t, size, overlap,
                  ChunkRun(t, size, overlap, s, n \div 2), n - (n \div 2))

\* the value _chunk_text returns, for size >= 1, where every iteration moves
\* the window by at least one character and Len(t) iterations suffice
chunk_text(t, size, overlap) == ChunkRun(t, size, overlap, ChunkEnter(t), Len(t)).chunks

-----------------------------------------------------------------------------
(* SpecChunk: one call of _chunk_text, step by step *)

SmallTexts == UNION {[1..n -> Alphabet] : n \in 0..MaxLen}

\* a text of 2400 characters, chunked under the default configuration
ExampleText == SubSeq([i \in 1..2400 |-> IF i % 2 = 1 THEN "a" ELSE "b"], 1, 2400)

InitRagIdle ==
    /\ store = <<>>
    /\ call = <<>>
    /\ next_uuid = 0
    /\ add_log = <<>>
    /\ clock = 0

\* no value returned or raised yet
NoResult == [kind |-> "none", text |-> <<>>, err |-> ""]

IdleEx ==
    [pc |-> "idle", kind |-> "none", doc |-> <<>>, text |-> <<>>, tiers |-> <<>>,
     temp_made |-> 0, temp_live |-> 0, ocr |-> 0, result |-> NoResult]

\* no extractor running; PIL's default for LOAD_TRUNCATED_IMAGES is False
InitExtIdle ==
    /\ ex = IdleEx
    /\ load_truncated = FALSE

\* no query running
InitAskIdle == qr = [pc |-> "idle"]

IdleDelete ==
    [n |-> 0, document_id |-> "", gets |-> <<>>, deletes |-> <<>>, ret |-> FALSE,
     raised |-> FALSE]

InitDelIdle == del_call = IdleDelete

InitChunk ==
    /\ \/ /\ text \in SmallTexts
          /\ chunk_size \in 0..MaxSize
          /\ chunk_overlap \in 0..MaxOverlap
       \/ /\ text = ExampleText
          /\ chunk_size = DefaultChunkSize
          /\ chunk_overlap = DefaultChunkOverlap
    /\ InitExtIdle
    /\ InitDelIdle
    /\ InitAskIdle
    /\ cpc = "call"
    /\ start = 0
    /\ end = 0
    /\ chunks = <<>>
    /\ windows = <<>>
    /\ InitRagIdle

ChunkCall ==
    /\ cpc = "call"
    /\ LET s == ChunkEnter(text)
       IN  /\ cpc' = s.pc
           /\ start' = s.start
           /\ end' = s.end
           /\ chunks' = s.chunks
           /\ windows' = s.windows
    /\ UNCHANGED <<text, proc_vars, rag_vars, ext_vars, ask_vars, del_vars>>

ChunkLoop ==
    /\ cpc = "while"
    /\ Len(chunks) < MaxIter
    /\ LET s == ChunkIter(text, chunk_size, chunk_overlap,
                          [pc |-> cpc, start |-> start, end |-> end,
                           chunks |-> chunks, windows |-> windows])
       IN  /\ cpc' = s.pc
           /\ start' = s.start
           /\ end' = s.end
           /\ chunks' = s.chunks
           /\ windows' = s.windows
    /\ UNCHANGED <<text, proc_vars, rag_vars, ext_vars, ask_vars, del_vars>>

NextChunk == ChunkCall \/ ChunkLoop

SpecChunk == InitChunk /\ [][NextChunk]_vars

-----------------------------------------------------------------------------
(* The files on disk.  A path is its stem and its suffix (pathlib's split);   *)
(* a file is the text its bytes decode to, or bytes that are not valid UTF-8. *)

BigLen == 160400    \* length of the largest file: 201 chunks, three batches

Digit == <<"0", "1", "2", "3", "4", "5", "6", "7", "8", "9">>

NoteText == <<"a", "b", "a">>

BigText == SubSeq([i \in 1..BigLen |-> Digit[(((i - 1) \div 800) % 10) + 1]], 1, BigLen)

GhostExe == [stem |-> "ghost", suffix |-> ".exe"]
GhostTxt == [stem |-> "ghost", suffix |-> ".txt"]
ToolExe  == [stem |-> "tool",  suffix |-> ".EXE"]
EmptyTxt == [stem |-> "empty", suffix |-> ".txt"]
NoteTxt  == [stem |-> "note",  suffix |-> ".txt"]
LongTxt  == [stem |-> "long",  suffix |-> ".TXT"]
BigTxt   == [stem |-> "big",   suffix |-> ".txt"]
BadTxt   == [stem |-> "bad",   suffix |-> ".txt"]
AnyTxt   == [stem |-> "any",   suffix |-> ".txt"]

\* PDF files: a zero-byte file (every library raises on it), a scan of one
\* empty page, a file with one page of native text
ScanPdf  == [stem |-> "scan",  suffix |-> ".pdf"]
BlankPdf == [stem |-> "blank", suffix |-> ".pdf"]
TextPdf  == [stem |-> "text",  suffix |-> ".pdf"]

\* Path.exists()
Exists(p) == p \notin {GhostExe, GhostTxt}

\* whether the file's bytes are valid UTF-8
Decodable(p) == p # BadTxt

\* the text the file's bytes decode to (any.txt holds the text being chunked)
FileText(p) ==
    CASE p = EmptyTxt -> <<>>
      [] p = AnyTxt   -> text
      [] p = NoteTxt  -> NoteText
      [] p = LongTxt  -> ExampleText
      [] p = BigTxt   -> BigText
      [] OTHER        -> <<"x">>

\* Path.name
Name(p) == p.stem \o p.suffix

\* str.lower() on the suffixes in use
Lower(sfx) ==
    CASE sfx = ".TXT" -> ".txt"
      [] sfx = ".EXE" -> ".exe"
      [] OTHER        -> sfx

-----------------------------------------------------------------------------
(* Caller-supplied metadata: None (no value) or a dict *)

None == <<>>
Some(d) == <<d>>

EmptyDict == [k \in {} |-> 0]

\* the dict main.upload_document passes (it has its own "source")
UploadMeta == [title |-> "Note", source |-> "web", document_type |-> "manual"]

\* a dict whose keys collide with the chunk-specific fields
CollidingMeta == [chunk_id |-> <<"x", 7>>, chunk_index |-> 99, total_chunks |-> 0,
                  document_id |-> "d1"]

\* the add_document requests explored: each file, with and without metadata
Requests ==
    {<<GhostExe, None>>, <<GhostTxt, Some(UploadMeta)>>, <<ToolExe, Some(UploadMeta)>>,
     <<EmptyTxt, Some(UploadMeta)>>, <<BadTxt, None>>,
     <<NoteTxt, None>>, <<NoteTxt, Some(CollidingMeta)>>,
     <<LongTxt, Some(UploadMeta)>>, <<LongTxt, Some(CollidingMeta)>>,
     <<BigTxt, Some(CollidingMeta)>>,
     <<ScanPdf, Some(UploadMeta)>>, <<BlankPdf, None>>, <<TextPdf, None>>}

\* {**a, **b}: the keys of both, b's value where both have the key
Merge(a, b) ==
    [k \in (DOMAIN a) \cup (DOMAIN b) |-> IF k \in DOMAIN b THEN b[k] ELSE a[k]]

\* "metadata or {}" and "if not metadata: metadata = {}"
OrEmpty(arg) == IF Len(arg) = 0 \/ DOMAIN arg[1] = {} THEN EmptyDict ELSE arg[1]

-----------------------------------------------------------------------------
(* Errors *)

NoError          == [type |-> "none", msg |-> ""]
FileNotFound     == [type |-> "FileNotFoundError", msg |-> "File not found"]
UnsupportedFormat == [type |-> "ValueError", msg |-> "Unsupported file format"]
\* ValueError(f"Failed to process document: {str(e)}")
ExtractionFailed(cause) ==
    [type |-> "ValueError", msg |-> "Failed to process document", cause |-> cause]
StoreError       == [type |-> "StoreError", msg |-> "collection.add failed"]

-----------------------------------------------------------------------------
(* The extractors of DocumentProcessor.  An extracted text is the sequence  *)
(* of the pieces the code appends to it (tags, page texts, OCR texts).      *)

MaxPages == 2       \* pages of an enumerated PDF

\* the strings str.strip() reduces to ""
Whitespace == {"", " ", "\n"}

\* not text.strip()
Blank(t) == \A k \in 1..Len(t) : t[k] \in Whitespace

\* what one strategy did: it produced text, produced none, or raised;
\* gathered is the text it had appended when it ended
TierRun(name, outcome, gathered) ==
    [tier |-> name, outcome |-> outcome, gathered |-> gathered]

Outcome(failed, t) == IF failed THEN "failed" ELSE IF Blank(t) THEN "empty" ELSE "text"

Returned(t) == [kind |-> "returned", text |-> t, err |-> ""]

Raised(e) == [kind |-> "raised", text |-> <<>>, err |-> e]

(* _process_pdf, first strategy: PyMuPDF *)

\* the pages PyMuPDF can meet: native text; no text; load_page or get_text
\* raises; native text with two images of which the first cannot be read
FitzPageSet ==
    {[load |-> "ok", page_text |-> "native text", images |-> <<>>],
     [load |-> "ok", page_text |-> " ", images |-> <<>>],
     [load |-> "raise", page_text |-> "", images |-> <<>>],
     [load |-> "ok", page_text |-> "native text", images |-> <<"error", "ocr">>]}

\* the image loop of one page: OCR text under its tag, nothing when OCR finds
\* no text, the placeholder when extracting or opening the image raises
RECURSIVE fitz_images(_, _, _)
fitz_images(images, img_index, page_no) ==
    IF img_index > Len(images) THEN <<>>
    ELSE (CASE images[img_index] = "ocr" ->
                 <<"[IMAGE " \o Digit[img_index + 1] \o " ON PAGE "
                     \o Digit[page_no + 1] \o "]", "ocr text">>
            [] images[img_index] = "error" ->
                 <<"[UNPROCESSED IMAGE " \o Digit[img_index + 1] \o " ON PAGE "
                     \o Digit[page_no + 1] \o "]">>
            [] OTHER -> <<>>)
         \o fitz_images(images, img_index + 1, page_no)

\* the page loop: a page that raises ends the strategy
RECURSIVE fitz_pages(_, _, _)
fitz_pages(pages, page_no, acc) ==
    IF page_no > Len(pages) THEN [failed |-> FALSE, text |-> acc]
    ELSE IF pages[page_no].load = "raise" THEN [failed |-> TRUE, text |-> acc]
    ELSE fitz_pages(pages, page_no + 1,
             acc \o (IF pages[page_no].page_text \in Whitespace THEN <<>>
                     ELSE <<"[PAGE " \o Digit[page_no + 1] \o "]",
                            pages[page_no].page_text>>)
                 \o fitz_images(pages[page_no].images, 1, page_no))

\* fitz.open raises, or the page loop runs
fitz_tier(f) ==
    IF f.open = "raise" THEN [failed |-> TRUE, text |-> <<>>]
    ELSE fitz_pages(f.pages, 1, <<>>)

OnFitzError_Keep(t) == t

\* except Exception as fitz_error: text = ""
OnFitzError(t) == <<>>

(* _process_pdf, second strategy: PyPDF2 with _process_pdf_page *)

\* the pages PyPDF2 can meet: native text; no text; a page without
\* '/Resources' (the lookup raises); native text with an image PIL cannot
\* open; no text with an image whose data is truncated
PyPdfPageSet ==
    {[page_text |-> "native text", resources |-> TRUE, images |-> <<>>],
     [page_text |-> " ", resources |-> TRUE, images |-> <<>>],
     [page_text |-> "native text", resources |-> FALSE, images |-> <<>>],
     [page_text |-> "native text", resources |-> TRUE, images |-> <<"undecodable">>],
     [page_text |-> " ", resources |-> TRUE, images |-> <<"truncated">>]}

\* the image loop of _process_pdf_page.  Image.open reads the header only:
\* a truncated image opens, and its pixels load inside _extract_text_with_ocr
\* only when LOAD_TRUNCATED_IMAGES is set (otherwise OCR returns "").  An
\* image PIL cannot open fails both attempts, the first of which sets
\* LOAD_TRUNCATED_IMAGES for the whole process.
RECURSIVE pdf_page_images(_, _, _)
pdf_page_images(images, i, flag) ==
    IF i > Len(images) THEN [text |-> <<>>, flag |-> flag]
    ELSE LET here ==
                 CASE images[i] = "ocr" ->
                        [text |-> <<"[IMAGE CONTENT - png format]", "ocr text">>,
                         flag |-> flag]
                   [] images[i] = "truncated" ->
                        [text |-> IF flag
                                  THEN <<"[IMAGE CONTENT - png format]", "ocr text">>
                                  ELSE <<>>,
                         flag |-> flag]
                   [] images[i] = "undecodable" ->
                        [text |-> <<"[UNPROCESSED IMAGE - Format: png, Size: 8x8]">>,
                         flag |-> TRUE]
                   [] images[i] = "nodata" ->
                        [text |-> <<"[ERROR PROCESSING IMAGE]">>, flag |-> flag]
                   [] OTHER -> [text |-> <<>>, flag |-> flag]
             rest == pdf_page_images(images, i + 1, here.flag)
         IN  [text |-> here.text \o rest.text, flag |-> rest.flag]

\* _process_pdf_page(page): the page text when it is not blank, then the
\* images; page['/Resources'] is looked up outside every try
process_pdf_page(page, flag) ==
    LET own == IF page.page_text \in Whitespace THEN <<>> ELSE <<page.page_text>>
    IN  IF ~page.resources THEN [raised |-> TRUE, text |-> own, flag |-> flag]
        ELSE LET imgs == pdf_page_images(page.images, 1, flag)
             IN  [raised |-> FALSE, text |-> own \o imgs.text, flag |-> imgs.flag]

\* the page loop of the second strategy
RECURSIVE pypdf_pages(_, _, _, _)
pypdf_pages(pages, page_num, acc, flag) ==
    IF page_num > Len(pages) THEN [failed |-> FALSE, text |-> acc, flag |-> flag]
    ELSE LET r == process_pdf_page(pages[page_num], flag)
         IN  IF r.raised THEN [failed |-> TRUE, text |-> acc, flag |-> r.flag]
             ELSE pypdf_pages(pages, page_num + 1,
                      acc \o (IF r.text = <<>> THEN <<>>
                              ELSE <<"[PAGE " \o Digit[page_num + 1] \o " - PDF TEXT]">>
                                   \o r.text),
                      r.flag)

\* PdfReader raises, or the page loop runs on the text so far
pypdf_tier(f, acc, flag) ==
    IF f.open = "raise" THEN [failed |-> TRUE, text |-> acc, flag |-> flag]
    ELSE pypdf_pages(f.pages, 1, acc, flag)

\* except Exception as pypdf_error: only logs, the text gathered so far stays
OnPyPdfError(t) == t

(* _process_pdf, third strategy: OCR of the rendered pages *)

\* the image loop: _extract_text_with_ocr never raises
RECURSIVE ocr_pages(_, _)
ocr_pages(images, i) ==
    IF i > Len(images) THEN <<>>
    ELSE (IF images[i] = "text"
          THEN <<"[PAGE " \o Digit[i + 1] \o " - OCR EXTRACT]", "scanned text">>
          ELSE <<>>)
         \o ocr_pages(images, i + 1)

\* convert_from_path raises (the handler only logs), or the image loop runs
ocr_tier(f, acc) ==
    IF f.open = "raise" THEN [failed |-> TRUE, text |-> acc]
    ELSE [failed |-> FALSE, text |-> acc \o ocr_pages(f.pages, 1)]

UnableToExtract(name) == "[UNABLE TO EXTRACT TEXT FROM DOCUMENT: " \o name \o "]"

FinalText_NoMarker(t, name) == t

FinalText_Empty(t, name) == <<>>

\* if not text.strip(): return the marker; return text
FinalText(t, name) == IF Blank(t) THEN <<UnableToExtract(name)>> ELSE t

\* what a library does with a file: opening raises, or it yields n pages
Opened(n, PageSet) ==
    {[open |-> "raise", pages |-> <<>>]}
        \cup {[open |-> "ok", pages |-> ps] : ps \in [1..n -> PageSet]}

\* a PDF file, as what each of the three libraries does with it (a
\* zero-byte file makes all three raise)
PdfDoc(f, q, r) == [name |-> "scan.pdf", fitz |-> f, pypdf |-> q, raster |-> r]

\* lines 292-317: rasterization runs only if the text t2 is still blank,
\* then the final test on what was gathered
AfterText(d, t2, flag) ==
    [text |-> FinalText(IF ~Blank(t2) THEN t2 ELSE ocr_tier(d.raster, t2).text, d.name),
     flag |-> flag]

\* lines 288-292: what the PyPDF2 strategy r2 leaves to the third
AfterPyPdf2(d, r2) ==
    AfterText(d, IF r2.failed THEN OnPyPdfError(r2.text) ELSE r2.text, r2.flag)

\* lines 270-279: the text of the PyMuPDF strategy r1 is returned if it is
\* not blank, else PyPDF2 runs from what r1 left
AfterFitz(d, r1, flag) ==
    IF ~r1.failed /\ ~Blank(r1.text) THEN [text |-> r1.text, flag |-> flag]
    ELSE AfterPyPdf2(d, pypdf_tier(d.pypdf,
                                   IF r1.failed THEN OnFitzError(r1.text) ELSE r1.text,
                                   flag))

\* _process_pdf(file_path) as a whole: the strategies in order, each under
\* the test that guards it; flag is LOAD_TRUNCATED_IMAGES before and after
process_pdf(d, flag) == AfterFitz(d, fitz_tier(d.fitz), flag)

NoFile == [open |-> "raise", pages |-> <<>>]

\* what the three libraries do with each PDF file on disk
PdfOf(p) ==
    CASE p = ScanPdf ->
           [PdfDoc(NoFile, NoFile, NoFile) EXCEPT !.name = Name(p)]
      [] p = BlankPdf ->
           [PdfDoc([open |-> "ok",
                    pages |-> <<[load |-> "ok", page_text |-> " ", images |-> <<>>]>>],
                   [open |-> "ok",
                    pages |-> <<[page_text |-> " ", resources |-> TRUE,
                                 images |-> <<>>]>>],
                   [open |-> "ok", pages |-> <<"blank">>])
            EXCEPT !.name = Name(p)]
      [] p = TextPdf ->
           [PdfDoc([open |-> "ok",
                    pages |-> <<[load |-> "ok", page_text |-> "native text",
                                 images |-> <<>>]>>],
                   NoFile, NoFile)
            EXCEPT !.name = Name(p)]

-----------------------------------------------------------------------------
(* DocumentProcessor.process *)

\* the keys of self.supported_formats
supported_formats == {".pdf", ".docx", ".doc", ".txt", ".csv"}

\* file_extension[1:]
FileType(ext) ==
    CASE ext = ".pdf"  -> "pdf"
      [] ext = ".docx" -> "docx"
      [] ext = ".doc"  -> "doc"
      [] ext = ".txt"  -> "txt"
      [] ext = ".csv"  -> "csv"

\* _process_text: open(..., encoding='utf-8').read(), any error re-raised
process_text_Lenient(p) == [ok |-> TRUE, text |-> FileText(p), err |-> ""]

process_text(p) ==
    IF Decodable(p) THEN [ok |-> TRUE, text |-> FileText(p), err |-> ""]
    ELSE [ok |-> FALSE, text |-> <<>>, err |-> "UnicodeDecodeError"]

\* self.supported_formats[file_extension](file_path), for the formats on disk;
\* looking up a key the dict does not have raises (KeyError)
Extract(p, ext) ==
    CASE ext = ".txt" -> process_text(p)
      [] ext = ".pdf" -> [ok |-> TRUE,
                          text |-> process_pdf(PdfOf(p), load_truncated).text,
                          err |-> ""]
      [] ext \notin supported_formats -> [ok |-> FALSE, text |-> <<>>, err |-> "KeyError"]

ChunkMetadata_CallerWins(base, stem, i, n) ==
    Merge([chunk_id |-> <<stem, i>>, chunk_index |-> i, total_chunks |-> n], base)

\* {**base_metadata, 'chunk_id': f"{stem}_{i}", 'chunk_index': i, 'total_chunks': n}
ChunkMetadata(base, stem, i, n) ==
    Merge(base, [chunk_id |-> <<stem, i>>, chunk_index |-> i, total_chunks |-> n])

IsSupported_Skip(ext) == TRUE

\* file_extension in self.supported_formats
IsSupported(ext) == ext \in supported_formats

BaseMetadata_FileWins(p, ext, now, arg) ==
    Merge(OrEmpty(arg),
          [source |-> Name(p), file_type |-> FileType(ext), processing_date |-> now])

BaseMetadata_Tagged(p, ext, now, arg) ==
    Merge([source |-> Name(p), file_type |-> FileType(ext), processing_date |-> now,
           document_id |-> p.stem],
          OrEmpty(arg))

\* lines 87-92: {'source': name, 'file_type': extension[1:],
\* 'processing_date': utcnow, **(metadata or {})}
BaseMetadata(p, ext, now, arg) ==
    Merge([source |-> Name(p), file_type |-> FileType(ext), processing_date |-> now],
          OrEmpty(arg))

\* process(file_path, metadata) at time now: the records it returns, or the
\* error it raises; extracted tells whether an extractor was invoked
process(p, arg, now) ==
    IF ~Exists(p)
    THEN [ok |-> FALSE, err |-> FileNotFound, extracted |-> FALSE, chunks |-> <<>>]
    ELSE LET ext == Lower(p.suffix) IN
         IF ~IsSupported(ext)
         THEN [ok |-> FALSE, err |-> UnsupportedFormat, extracted |-> FALSE,
               chunks |-> <<>>]
         ELSE LET r == Extract(p, ext) IN
              IF ~r.ok
              THEN [ok |-> FALSE, err |-> ExtractionFailed(r.err), extracted |-> TRUE,
                    chunks |-> <<>>]
              ELSE LET cs == chunk_text(r.text, chunk_size, chunk_overlap)
                       base == BaseMetadata(p, ext, now, arg)
                   IN  [ok |-> TRUE, err |-> NoError, extracted |-> TRUE,
                        chunks |-> [i \in 1..Len(cs) |->
                                      [content |-> cs[i],
                                       metadata |-> ChunkMetadata(base, p.stem, i - 1,
                                                                  Len(cs))]]]

-----------------------------------------------------------------------------
(* RAGService.add_document against the vector store *)

MaxCalls == 2       \* add_document calls in one behaviour

batch_size == 100

CallIds == 1..MaxCalls

IdleCall ==
    [pc |-> "idle", path |-> GhostExe, arg |-> None, chunks |-> <<>>, ids |-> <<>>,
     i |-> 0, ret |-> <<>>, err |-> NoError, extracted |-> FALSE]

BatchSlice_Tail(seq, i, size) ==
    SubSeq(seq, Len(seq) - Min(i + size, Len(seq)) + 1, Len(seq) - i)

\* seq[i:i + size]
BatchSlice(seq, i, size) == SubSeq(seq, i + 1, Min(i + size, Len(seq)))

NextBatchStart_SkipOne(i, size) == i + size + 1

\* the next value of range(0, len(ids), batch_size) after i
NextBatchStart(i, size) == i + size

OnAddError_Swallow(k) ==
    IF NextBatchStart(k.i, batch_size) < Len(k.ids)
    THEN [k EXCEPT !.i = NextBatchStart(k.i, batch_size)]
    ELSE [k EXCEPT !.i = NextBatchStart(k.i, batch_size), !.pc = "returned"]

\* collection.add raises inside the for loop, which has no handler: the
\* exception leaves add_document
OnAddError(k) == [k EXCEPT !.pc = "raised", !.err = StoreError]

\* for chunk in chunks: documents.append(chunk['content'])
Documents(cs) == [k \in 1..Len(cs) |-> cs[k].content]

\* for chunk in chunks: metadatas.append(chunk['metadata'])
Metadatas(cs) == [k \in 1..Len(cs) |-> cs[k].metadata]

\* what collection.add(documents, metadatas, ids) appends to the collection
Records(ids, docs, metas) ==
    [k \in 1..Len(ids) |-> [id |-> ids[k], document |-> docs[k], metadata |-> metas[k]]]

ReturnValue_FirstMeta(ids, metas) ==
    [k \in 1..Min(Len(ids), Len(metas)) |-> [id |-> ids[k], metadata |-> metas[1]]]

\* [{"id": id_, "metadata": meta} for id_, meta in zip(ids, metadatas)]
ReturnValue(ids, metas) ==
    [k \in 1..Min(Len(ids), Len(metas)) |-> [id |-> ids[k], metadata |-> metas[k]]]

uuid4s_Restart(drawn, n) == [k \in 1..n |-> k]

\* chunk_id = str(uuid.uuid4()), once per chunk: n values never drawn before
\* ("drawn" counts the values drawn so far by every service process)
uuid4s(drawn, n) == [k \in 1..n |-> drawn + k]

EmptyResult_Stored(cs) == FALSE

\* "if not chunks"
EmptyResult(cs) == Len(cs) = 0

\* add_document up to the batch loop: process the file, stop on an error or
\* on no chunks, otherwise draw one uuid4 per chunk.
BeginAddDocument(c, p, arg) ==
    /\ call[c].pc = "idle"
    /\ LET res == process(p, Some(OrEmpty(arg)), clock)
           n == Len(res.chunks)
       IN  /\ IF ~res.ok
              THEN /\ call' = [call EXCEPT ![c] =
                         [@ EXCEPT !.pc = "raised", !.path = p, !.arg = arg,
                                   !.err = res.err, !.extracted = res.extracted]]
                   /\ next_uuid' = next_uuid
              ELSE IF EmptyResult(res.chunks)
              THEN /\ call' = [call EXCEPT ![c] =
                         [@ EXCEPT !.pc = "returned", !.path = p, !.arg = arg,
                                   !.ret = <<>>, !.extracted = res.extracted]]
                   /\ next_uuid' = next_uuid
              ELSE /\ call' = [call EXCEPT ![c] =
                         [@ EXCEPT !.pc = "adding", !.path = p, !.arg = arg,
                                   !.chunks = res.chunks,
                                   !.ids = uuid4s(next_uuid, n),
                                   !.i = 0, !.extracted = res.extracted]]
                   /\ next_uuid' = next_uuid + n
    /\ clock' = clock + 1
    /\ UNCHANGED <<store, add_log, proc_vars, chunk_vars, ext_vars, ask_vars, del_vars>>

\* A call starts when the calls before it have ended: add_document has no
\* suspension point (every coroutine it awaits runs synchronously,
\* collection.add is a blocking call), so the event loop of one service runs
\* one call to its end before the next.
AddDocument(c, p, arg) ==
    /\ \A d \in CallIds : d < c => call[d].pc \in {"returned", "raised"}
    /\ BeginAddDocument(c, p, arg)

\* one iteration of the batch loop whose collection.add succeeds; after the
\* last one add_document returns the {id, metadata} pairs
CollectionAdd(c) ==
    /\ call[c].pc = "adding"
    /\ LET k == call[c]
           batch_ids == BatchSlice(k.ids, k.i, batch_size)
           batch_docs == BatchSlice(Documents(k.chunks), k.i, batch_size)
           batch_metadatas == BatchSlice(Metadatas(k.chunks), k.i, batch_size)
           nxt == NextBatchStart(k.i, batch_size)
       IN  /\ store' = store \o Records(batch_ids, batch_docs, batch_metadatas)
           /\ add_log' = Append(add_log,
                  [call |-> c, ok |-> TRUE, ids |-> batch_ids,
                   ndocs |-> Len(batch_docs), nmetas |-> Len(batch_metadatas)])
           /\ call' = [call EXCEPT ![c] =
                  IF nxt < Len(k.ids)
                  THEN [@ EXCEPT !.i = nxt]
                  ELSE [@ EXCEPT !.i = nxt, !.pc = "returned",
                                 !.ret = ReturnValue(k.ids, Metadatas(k.chunks))]]
    /\ UNCHANGED <<next_uuid, clock, proc_vars, chunk_vars, ext_vars, ask_vars, del_vars>>

\* one iteration of the batch loop whose collection.add raises: nothing of
\* the batch is stored and the exception leaves add_document
CollectionAddFails(c) ==
    /\ call[c].pc = "adding"
    /\ LET k == call[c]
           batch_ids == BatchSlice(k.ids, k.i, batch_size)
           batch_docs == BatchSlice(Documents(k.chunks), k.i, batch_size)
           batch_metadatas == BatchSlice(Metadatas(k.chunks), k.i, batch_size)
       IN  add_log' = Append(add_log,
               [call |-> c, ok |-> FALSE, ids |-> batch_ids,
                ndocs |-> Len(batch_docs), nmetas |-> Len(batch_metadatas)])
    /\ call' = [call EXCEPT ![c] = OnAddError(call[c])]
    /\ UNCHANGED <<store, next_uuid, clock, proc_vars, chunk_vars, ext_vars, ask_vars, del_vars>>

\* RAGService.__init__: an empty collection here, DocumentProcessor(1000, 200)
Init ==
    /\ chunk_size = DefaultChunkSize
    /\ chunk_overlap = DefaultChunkOverlap
    /\ text = <<>>
    /\ cpc = "done"
    /\ start = 0
    /\ end = 0
    /\ chunks = <<>>
    /\ windows = <<>>
    /\ store = <<>>
    /\ call = [c \in CallIds |-> IdleCall]
    /\ next_uuid = 0
    /\ add_log = <<>>
    /\ clock = 0
    /\ InitExtIdle
    /\ InitDelIdle
    /\ InitAskIdle

Next ==
    \/ \E c \in CallIds, r \in Requests : AddDocument(c, r[1], r[2])
    \/ \E c \in CallIds : CollectionAdd(c)
    \/ \E c \in CallIds : CollectionAddFails(c)

Spec == Init /\ [][Next]_vars

-----------------------------------------------------------------------------
(* SpecShared: several service processes on one persistent collection      *)
(* (chromadb.PersistentClient on the same path), so that the batches of    *)
(* different add_document calls interleave in every order.                 *)

\* the requests whose file fits in one batch
LightRequests == {r \in Requests : r[1] # BigTxt}

\* an add_document call of another process: it may start while earlier calls
\* are still in their batch loop (calls are numbered in the order they start)
AddDocumentShared(c, p, arg) ==
    /\ \A d \in CallIds : d < c => call[d].pc # "idle"
    /\ BeginAddDocument(c, p, arg)

NextShared ==
    \/ \E c \in CallIds, r \in LightRequests : AddDocumentShared(c, r[1], r[2])
    \/ \E c \in CallIds : CollectionAdd(c)
    \/ \E c \in CallIds : CollectionAddFails(c)

SpecShared == Init /\ [][NextShared]_vars

-----------------------------------------------------------------------------
(* Properties of _chunk_text, under SpecChunk *)

DropFirst(s, k) == SubSeq(s, k + 1, Len(s))

\* the first chunk followed by every later chunk without its first m characters
RECURSIVE NonOverlapConcat(_, _, _)
NonOverlapConcat(cs, m, k) ==
    IF k > Len(cs) THEN <<>>
    ELSE (IF k = 1 THEN cs[1] ELSE DropFirst(cs[k], m)) \o NonOverlapConcat(cs, m, k + 1)

\* number of text positions two windows have in common
Shared(w1, w2) == Cardinality((w1[1] .. (w1[2] - 1)) \cap (w2[1] .. (w2[2] - 1)))

\* C1: for size > overlap >= 0, the first chunk concatenated with every later
\* chunk minus its leading min(overlap, size div 2) characters is the text
\* itself: nothing lost, duplicated or reordered.
C1_Reconstruct ==
    (cpc = "done" /\ chunk_size > chunk_overlap /\ chunk_overlap >= 0)
        => NonOverlapConcat(chunks, Min(chunk_overlap, chunk_size \div 2), 1) = text

C1_Witness ==
    /\ cpc = "done"
    /\ chunk_size > chunk_overlap
    /\ chunk_overlap > chunk_size \div 2
    /\ Len(chunks) >= 3
    /\ \E i, j \in 1..Len(text) : text[i] # text[j]
    /\ NonOverlapConcat(chunks, Min(chunk_overlap, chunk_size \div 2), 1) = text

\* C2: on every loop iteration after which the loop continues, the window
\* start has strictly increased (no zero or negative advancement), for every
\* chunk_size and chunk_overlap the constructor accepts.
C2_StartAdvances ==
    [][(cpc = "while" /\ cpc' = "while") => start' > start]_vars

\* C3: for overlap < size, consecutive windows share exactly
\* min(overlap, size div 2) characters, the next window starting that many
\* characters before the previous window's end; the final pair shares at
\* least that many.
C3_ConsecutiveOverlap ==
    chunk_overlap < chunk_size =>
        LET m == Min(chunk_overlap, chunk_size \div 2)
            n == Len(windows)
        IN  \A k \in 1..(n - 1) :
                IF k < n - 1
                THEN /\ Shared(windows[k], windows[k + 1]) = m
                     /\ windows[k + 1][1] = windows[k][2] - m
                ELSE Shared(windows[k], windows[k + 1]) >= m

C3_Witness ==
    /\ cpc = "done"
    /\ chunk_overlap < chunk_size
    /\ chunk_overlap >= 1
    /\ Len(windows) >= 3
    /\ Shared(windows[1], windows[2]) = Min(chunk_overlap, chunk_size \div 2)

\* C4: the empty text gives no chunk; a non-empty text shorter than size gives
\* exactly one chunk, equal to the text.
C4_EmptyAndShort ==
    cpc = "done" =>
        /\ (Len(text) = 0 => chunks = <<>>)
        /\ (Len(text) > 0 /\ Len(text) < chunk_size => chunks = <<text>>)

C4_Witness ==
    /\ cpc = "done"
    /\ Len(text) >= 2
    /\ Len(text) < chunk_size
    /\ chunks = <<text>>

\* C5: a text of length L > size gives exactly 1 + ceil((L - size) / s) chunks
\* with s = size - min(overlap, size div 2), at least 2; all but the last have
\* length size, the last at most size; and size 1000, overlap 200, L 2400
\* gives 3 chunks, the last shorter than size.
C5_ChunkCount ==
    (cpc = "done" /\ Len(text) > chunk_size) =>
        LET s == chunk_size - Min(chunk_overlap, chunk_size \div 2)
            n == Len(chunks)
        IN  /\ n = 1 + CeilDiv(Len(text) - chunk_size, s)
            /\ n >= 2
            /\ \A k \in 1..(n - 1) : Len(chunks[k]) = chunk_size
            /\ Len(chunks[n]) <= chunk_size
            /\ (chunk_size = 1000 /\ chunk_overlap = 200 /\ Len(text) = 2400)
                   => (n = 3 /\ Len(chunks[n]) < chunk_size)

C5_Witness ==
    /\ cpc = "done"
    /\ chunk_size = 1000
    /\ chunk_overlap = 200
    /\ Len(text) = 2400
    /\ Len(chunks) = 3
    /\ Len(chunks[3]) = 800

-----------------------------------------------------------------------------
(* Properties of process and add_document, under Spec *)

Range(f) == {f[k] : k \in DOMAIN f}

Started(c) == call[c].pc # "idle"

\* the collection.add calls of call c, in the order in which they were made
AddsOf(c) == SelectSeq(add_log, LAMBDA e : e.call = c)

\* the stored records that carry an id drawn by call c, in store order
StoredOf(c) ==
    LET mine == Range(call[c].ids)
    IN  SelectSeq(store, LAMBDA r : r.id \in mine)

\* the records of the first n chunks of call c
FirstRecords(c, n) ==
    Records(SubSeq(call[c].ids, 1, n),
            SubSeq(Documents(call[c].chunks), 1, n),
            SubSeq(Metadatas(call[c].chunks), 1, n))

\* the k-th window of a text under the processor's configuration
WindowOf(t, k) ==
    LET s == chunk_size - Min(chunk_overlap, chunk_size \div 2)
    IN  SubSeq(t, (k - 1) * s + 1, Min((k - 1) * s + chunk_size, Len(t)))

\* C6: the n records process returns are in document order, with
\* chunk_index 0..n-1, total_chunks = n >= 1, chunk_index < total_chunks and
\* pairwise distinct chunk_id, whatever keys the caller's metadata has.
C6_ChunkRecords ==
    \A c \in CallIds :
        LET cs == call[c].chunks
            n == Len(cs)
        IN  /\ \A k \in 1..n :
                   /\ cs[k].content
                         = WindowOf(Extract(call[c].path,
                                            Lower(call[c].path.suffix)).text, k)
                   /\ cs[k].metadata.chunk_index = k - 1
                   /\ cs[k].metadata.total_chunks = n
                   /\ n >= 1
                   /\ cs[k].metadata.chunk_index < cs[k].metadata.total_chunks
            /\ Cardinality({cs[j].metadata.chunk_id : j \in 1..n}) = n

C6_Witness ==
    \E c \in CallIds :
        /\ call[c].arg = Some(CollidingMeta)
        /\ Len(call[c].chunks) >= 3
        /\ call[c].chunks[3].metadata.chunk_index = 2
        /\ call[c].chunks[3].metadata.document_id = "d1"

\* C7 as stated: a path whose extension is unsupported, whether or not the
\* file exists, fails with UnsupportedFormat, with no extractor invoked and
\* the store unchanged.
C7_UnsupportedAlways ==
    [][\A c \in CallIds :
         (~Started(c) /\ Started(c)'
            /\ Lower(call'[c].path.suffix) \notin supported_formats)
         => /\ call'[c].pc = "raised"
            /\ call'[c].err = UnsupportedFormat
            /\ ~call'[c].extracted
            /\ store' = store
            /\ add_log' = add_log]_vars

\* C7 amended: an existing path whose lower-cased extension is unsupported
\* fails with UnsupportedFormat, a path that does not exist fails with
\* FileNotFound whatever its extension; in both cases no extractor is invoked
\* and the store is unchanged.
C7_UnsupportedOrMissing ==
    [][\A c \in CallIds :
         (~Started(c) /\ Started(c)'
            /\ (Lower(call'[c].path.suffix) \notin supported_formats
                  \/ ~Exists(call'[c].path)))
         => /\ call'[c].pc = "raised"
            /\ call'[c].err = (IF Exists(call'[c].path) THEN UnsupportedFormat
                               ELSE FileNotFound)
            /\ ~call'[c].extracted
            /\ store' = store
            /\ add_log' = add_log]_vars

C7_Witness ==
    \E c \in CallIds :
        /\ call[c].pc = "raised"
        /\ call[c].path = ToolExe
        /\ call[c].err = UnsupportedFormat
        /\ Len(store) > 0

\* C8: when the extractor of a supported, existing file yields the empty
\* text, add_document returns an empty sequence, raises nothing and makes no
\* collection.add call.
C8_EmptyTextNoOp ==
    \A c \in CallIds :
        (/\ Started(c)
         /\ Exists(call[c].path)
         /\ Lower(call[c].path.suffix) \in supported_formats
         /\ Extract(call[c].path, Lower(call[c].path.suffix)).ok
         /\ Len(Extract(call[c].path, Lower(call[c].path.suffix)).text) = 0)
        => /\ call[c].pc = "returned"
           /\ call[c].ret = <<>>
           /\ call[c].err = NoError
           /\ Len(AddsOf(c)) = 0
           /\ Len(StoredOf(c)) = 0

C8_Witness ==
    \E c \in CallIds :
        /\ call[c].pc = "returned"
        /\ call[c].path = EmptyTxt
        /\ call[c].extracted
        /\ call[c].ret = <<>>
        /\ Len(store) > 0

\* C9: the j-th collection.add of a call passes chunks 100(j-1)+1 .. 100j (at
\* most 100, in chunk order, ids, documents and metadatas of equal length),
\* and is made only after the j-1 before it succeeded; when the call returns,
\* ceil(n/100) adds were made and the store holds each chunk exactly once.
C9_Batches ==
    \A c \in CallIds :
        LET E == AddsOf(c)
            n == Len(call[c].ids)
        IN  /\ \A j \in 1..Len(E) :
                   /\ E[j].ids = SubSeq(call[c].ids, 100 * (j - 1) + 1, Min(100 * j, n))
                   /\ Len(E[j].ids) >= 1
                   /\ Len(E[j].ids) <= 100
                   /\ E[j].ndocs = Len(E[j].ids)
                   /\ E[j].nmetas = Len(E[j].ids)
                   /\ (j < Len(E) => E[j].ok)
            /\ (call[c].pc = "adding" => Len(E) * 100 = call[c].i /\ call[c].i < n)
            /\ (call[c].pc = "returned" /\ n > 0)
                   => /\ Len(E) = CeilDiv(n, 100)
                      /\ E[Len(E)].ok
                      /\ StoredOf(c) = FirstRecords(c, n)

C9_Witness ==
    \E c \in CallIds :
        /\ call[c].pc = "returned"
        /\ Len(call[c].ids) = 201
        /\ Len(AddsOf(c)) = 3
        /\ Len(AddsOf(c)[3].ids) = 1
        /\ Len(store) > 201

\* C10: when collection.add fails on batch k of a call, that is the call's
\* last add, the call ends with the store's error and returns no records, and
\* the store holds of this call exactly the chunks of the k-1 batches before.
C10_FailedBatch ==
    \A c \in CallIds :
        LET E == AddsOf(c)
        IN  \A k \in 1..Len(E) :
                ~E[k].ok
                => /\ k = Len(E)
                   /\ call[c].pc = "raised"
                   /\ call[c].err = StoreError
                   /\ call[c].ret = <<>>
                   /\ StoredOf(c) = FirstRecords(c, 100 * (k - 1))

C10_Witness ==
    \E c \in CallIds :
        /\ call[c].pc = "raised"
        /\ call[c].err = StoreError
        /\ Len(AddsOf(c)) = 2
        /\ Len(StoredOf(c)) = 100
        /\ Len(store) > 100

-----------------------------------------------------------------------------
(* Properties of add_document under SpecShared and Spec, continued *)

\* the number of chunks of the calls 1..c that have returned
RECURSIVE ReturnedChunks(_)
ReturnedChunks(c) ==
    IF c = 0 THEN 0
    ELSE ReturnedChunks(c - 1)
         + (IF call[c].pc = "returned" THEN Len(call[c].chunks) ELSE 0)

\* C11: every chunk is stored under a fresh identifier: the identifiers drawn
\* are pairwise distinct within one call and across calls, whatever the
\* order in which the batches of different calls reach the store, so the
\* stored ids are pairwise distinct, the records of a returned call are all
\* in the store as written, and once every started call has returned the
\* store holds the sum of their chunk counts (the same file twice included).
C11_FreshIds ==
    /\ Cardinality({store[k].id : k \in 1..Len(store)}) = Len(store)
    /\ \A c \in CallIds :
           Cardinality(Range(call[c].ids)) = Len(call[c].ids)
    /\ \A c, d \in CallIds :
           c # d => Range(call[c].ids) \cap Range(call[d].ids) = {}
    /\ \A c \in CallIds :
           call[c].pc = "returned"
           => StoredOf(c) = FirstRecords(c, Len(call[c].chunks))
    /\ (\A c \in CallIds : call[c].pc \in {"idle", "returned"})
           => Len(store) = ReturnedChunks(MaxCalls)

\* the same file ingested twice, the second call's batch stored first
C11_Witness ==
    /\ call[1].pc = "returned"
    /\ call[2].pc = "returned"
    /\ call[1].path = LongTxt
    /\ call[2].path = LongTxt
    /\ Len(store) = 6
    /\ store[1].id \in Range(call[2].ids)

\* C12: a call that returns after storing n >= 1 chunks returns exactly n
\* pairs, the k-th made of an id and a metadata and nothing else, and these
\* are the id and the metadata of the record written for the k-th chunk.
C12_ReturnedPairs ==
    \A c \in CallIds :
        (call[c].pc = "returned" /\ Len(call[c].chunks) > 0)
        => LET ret == call[c].ret
               n == Len(call[c].chunks)
               mine == StoredOf(c)
           IN  /\ Len(ret) = n
               /\ Len(mine) = n
               /\ \A k \in 1..n :
                      /\ DOMAIN ret[k] = {"id", "metadata"}
                      /\ mine[k].document = call[c].chunks[k].content
                      /\ ret[k].id = mine[k].id
                      /\ ret[k].metadata = mine[k].metadata
                      /\ ret[k].metadata.chunk_index = k - 1

C12_Witness ==
    \E c \in CallIds :
        /\ call[c].pc = "returned"
        /\ call[c].path = BigTxt
        /\ Len(call[c].ret) = 201
        /\ call[c].ret[201].metadata.chunk_index = 200

-----------------------------------------------------------------------------
(* _process_pdf run on one file, one strategy per step *)

\* the call _process_pdf(file_path)
PdfCall(d) ==
    [IdleEx EXCEPT !.pc = "fitz", !.kind = "pdf", !.doc = d]

\* first strategy, up to "if text.strip(): return text" or its handler
PdfFitz ==
    /\ ex.pc = "fitz"
    /\ LET r == fitz_tier(ex.doc.fitz)
           run == TierRun("fitz", Outcome(r.failed, r.text), r.text)
       IN  ex' = IF r.failed
                 THEN [ex EXCEPT !.pc = "pypdf", !.text = OnFitzError(r.text),
                                 !.tiers = Append(@, run)]
                 ELSE IF ~Blank(r.text)
                 THEN [ex EXCEPT !.pc = "done", !.text = r.text,
                                 !.tiers = Append(@, run),
                                 !.result = Returned(r.text)]
                 ELSE [ex EXCEPT !.pc = "pypdf", !.text = r.text,
                                 !.tiers = Append(@, run)]
    /\ UNCHANGED <<load_truncated, ask_vars, proc_vars, chunk_vars, rag_vars, del_vars>>

\* second strategy and the test "if not text.strip()" that follows it: with
\* text the function goes to its last lines, without it to the third strategy
PdfPyPdf2 ==
    /\ ex.pc = "pypdf"
    /\ LET r == pypdf_tier(ex.doc.pypdf, ex.text, load_truncated)
           t == IF r.failed THEN OnPyPdfError(r.text) ELSE r.text
           run == TierRun("pypdf", Outcome(r.failed, r.text), r.text)
       IN  /\ load_truncated' = r.flag
           /\ ex' = IF Blank(t)
                    THEN [ex EXCEPT !.pc = "ocr", !.text = t,
                                    !.tiers = Append(@, run)]
                    ELSE [ex EXCEPT !.pc = "done", !.text = t,
                                    !.tiers = Append(@, run),
                                    !.result = Returned(FinalText(t, ex.doc.name))]
    /\ UNCHANGED <<ask_vars, proc_vars, chunk_vars, rag_vars, del_vars>>

\* third strategy and the last lines of the function
PdfOcr ==
    /\ ex.pc = "ocr"
    /\ LET r == ocr_tier(ex.doc.raster, ex.text)
           run == TierRun("ocr", Outcome(r.failed, r.text), r.text)
       IN  ex' = [ex EXCEPT !.pc = "done", !.text = r.text,
                            !.tiers = Append(@, run),
                            !.result = Returned(FinalText(r.text, ex.doc.name))]
    /\ UNCHANGED <<load_truncated, ask_vars, proc_vars, chunk_vars, rag_vars, del_vars>>

-----------------------------------------------------------------------------
(* _process_docx *)

MaxImages == 2      \* images docx2txt writes to the temporary directory

\* the files docx2txt left in the temporary directory: an image with text,
\* an image without, a file Image.open rejects, a file that is no image
DocxImageKinds == {"ocr", "none", "error", "other"}

\* the .docx files: docx2txt raises, or returns a text (with body text,
\* white space only, or empty) and writes the images; python-docx raises or
\* returns the joined paragraphs (possibly none)
DocxDocs ==
    {[name |-> "memo.docx", primary |-> [outcome |-> "raise", text |-> <<>>],
      images |-> <<>>, fallback |-> f] :
        f \in {[outcome |-> "raise", text |-> <<>>],
               [outcome |-> "ok", text |-> <<"paragraphs">>],
               [outcome |-> "ok", text |-> <<>>]}}
    \cup
    {[name |-> "memo.docx", primary |-> [outcome |-> "ok", text |-> t],
      images |-> im, fallback |-> f] :
        t \in {<<"body text">>, <<" ">>, <<>>},
        im \in UNION {[1..n -> DocxImageKinds] : n \in 0..MaxImages},
        f \in {[outcome |-> "raise", text |-> <<>>],
               [outcome |-> "ok", text |-> <<"paragraphs">>],
               [outcome |-> "ok", text |-> <<>>]}}

\* the loop over os.listdir(temp_dir): OCR text under its tag; a file that
\* is no image, an image without text and an image that raises add nothing
RECURSIVE docx_images(_, _)
docx_images(images, i) ==
    IF i > Len(images) THEN <<>>
    ELSE (IF images[i] = "ocr"
          THEN <<"[IMAGE CONTENT FROM image" \o Digit[i + 1] \o ".png]:", "ocr text">>
          ELSE <<>>)
         \o docx_images(images, i + 1)

\* the number of _extract_text_with_ocr calls of that loop
OcrCalls(images) == Cardinality({i \in 1..Len(images) : images[i] \in {"ocr", "none"}})

DocxReraise_Fallback(e, e2) == e2

\* except Exception as e2: raise e
DocxReraise(e, e2) == e

\* the call _process_docx(file_path)
DocxCall(d) ==
    [IdleEx EXCEPT !.pc = "docx", !.kind = "docx", !.doc = d]

\* lines 327-349: mkdtemp, docx2txt.process, the image loop, rmtree and the
\* test of the text; when docx2txt raises control is in the outer handler,
\* which removes nothing
DocxPrimary ==
    /\ ex.pc = "docx"
    /\ LET d == ex.doc
           t == d.primary.text \o docx_images(d.images, 1)
       IN  ex' = IF d.primary.outcome = "raise"
                 THEN [ex EXCEPT !.pc = "docx_except",
                                 !.temp_made = @ + 1, !.temp_live = @ + 1,
                                 !.tiers = Append(@, TierRun("docx2txt", "failed", <<>>))]
                 ELSE IF Blank(t)
                 THEN [ex EXCEPT !.pc = "docx_retry", !.text = t,
                                 !.temp_made = @ + 1, !.ocr = @ + OcrCalls(d.images),
                                 !.tiers = Append(@, TierRun("docx2txt", "empty", t))]
                 ELSE [ex EXCEPT !.pc = "done", !.text = t,
                                 !.temp_made = @ + 1, !.ocr = @ + OcrCalls(d.images),
                                 !.tiers = Append(@, TierRun("docx2txt", "text", t)),
                                 !.result = Returned(t)]
    /\ UNCHANGED <<load_truncated, ask_vars, proc_vars, chunk_vars, rag_vars, del_vars>>

\* lines 349-357: python-docx after an empty primary text; its failure is
\* logged and the (blank) primary text returned
DocxRetry ==
    /\ ex.pc = "docx_retry"
    /\ LET f == ex.doc.fallback
           t == IF f.outcome = "raise" THEN ex.text ELSE f.text
       IN  ex' = [ex EXCEPT !.pc = "done", !.text = t,
                      !.tiers = Append(@, TierRun("python-docx",
                                                  Outcome(f.outcome = "raise", f.text),
                                                  f.text)),
                      !.result = Returned(t)]
    /\ UNCHANGED <<load_truncated, ask_vars, proc_vars, chunk_vars, rag_vars, del_vars>>

\* lines 359-367: python-docx in the outer handler; its failure re-raises
DocxExcept ==
    /\ ex.pc = "docx_except"
    /\ LET f == ex.doc.fallback
       IN  ex' = [ex EXCEPT !.pc = "done",
                      !.text = f.text,
                      !.tiers = Append(@, TierRun("python-docx",
                                                  Outcome(f.outcome = "raise", f.text),
                                                  f.text)),
                      !.result = IF f.outcome = "raise"
                                 THEN Raised(DocxReraise("docx2txt error",
                                                         "python-docx error"))
                                 ELSE Returned(f.text)]
    /\ UNCHANGED <<load_truncated, ask_vars, proc_vars, chunk_vars, rag_vars, del_vars>>

-----------------------------------------------------------------------------
(* _process_csv *)

MaxRows == 2        \* data rows of an enumerated table

\* the cell values: a word; the name of an image that is not on disk; of an
\* image with text; of an image without text; of a file Image.open rejects
CellValues == {"bolt", "ghost.png", "plan.png", "blank.jpg", "broken.png"}

\* cell_value.lower().endswith(('.png', '.jpg', '.jpeg', '.bmp', '.tiff'))
ImageName(v) == v \in {"ghost.png", "plan.png", "blank.jpg", "broken.png"}

\* Path(cell_value).is_file()
IsFile(v) == v \in {"plan.png", "blank.jpg", "broken.png"}

\* Image.open(img_path) succeeds
Opens(v) == v \in {"plan.png", "blank.jpg"}

\* self._extract_text_with_ocr(img)
OcrText(v) == IF v = "plan.png" THEN "M8 x 40" ELSE ""

\* the .csv files: pandas raises (an empty or malformed file) or parses a
\* table of two columns; reading the file as text succeeds or raises
CsvDocs ==
    {[name |-> "parts.csv", parse |-> "raise", rows |-> <<>>, raw |-> r] :
        r \in {[outcome |-> "ok", text |-> <<"part;drawing">>],
               [outcome |-> "ok", text |-> <<>>],
               [outcome |-> "raise", text |-> <<>>]}}
    \cup
    {[name |-> "parts.csv", parse |-> "ok", rows |-> rs,
      raw |-> [outcome |-> "ok", text |-> <<"part,drawing">>]] :
        rs \in UNION {[1..n -> CellValues \X CellValues] : n \in 0..MaxRows}}

render_cell_NoFileTest(v) ==
    IF ImageName(v) THEN "[IMAGE: " \o v \o "] " \o OcrText(v) ELSE v

\* lines 401-415: the cell as text, replaced by the tagged OCR text when it
\* names an image file that exists, opens and has text
render_cell(v) ==
    IF ImageName(v) /\ IsFile(v) /\ Opens(v) /\ OcrText(v) # ""
    THEN "[IMAGE: " \o v \o "] " \o OcrText(v)
    ELSE v

\* whether lines 401-415 call _extract_text_with_ocr for the cell
CellOcr(v) == ImageName(v) /\ IsFile(v) /\ Opens(v)

\* lines 397-417: per row the rendered cells joined by ", "
RECURSIVE csv_rows(_, _)
csv_rows(rows, i) ==
    IF i > Len(rows) THEN <<>>
    ELSE <<render_cell(rows[i][1]), ", ", render_cell(rows[i][2])>>
         \o csv_rows(rows, i + 1)

\* the OCR calls of the row loop
CsvOcrCalls(rows) ==
    Cardinality({<<i, j>> \in (1..Len(rows)) \X {1, 2} : CellOcr(rows[i][j])})

\* lines 385-435 for a table without numeric columns
csv_report(d) ==
    <<"=== CSV Content: " \o d.name \o " ===", "part, drawing", "-----">>
    \o csv_rows(d.rows, 1)
    \o <<"=== Data Summary ===", "Total Rows: " \o Digit[Len(d.rows) + 1],
         "Columns: part, drawing">>

CsvReraise_Second(e, e2) == e2

\* except Exception as e2: raise e
CsvReraise(e, e2) == e

\* the call _process_csv(file_path)
CsvCall(d) ==
    [IdleEx EXCEPT !.pc = "csv", !.kind = "csv", !.doc = d]

\* lines 380-435: pandas and the report, or into the handler
CsvParse ==
    /\ ex.pc = "csv"
    /\ ex' = IF ex.doc.parse = "raise"
             THEN [ex EXCEPT !.pc = "csv_except",
                             !.tiers = Append(@, TierRun("pandas", "failed", <<>>))]
             ELSE [ex EXCEPT !.pc = "done", !.text = csv_report(ex.doc),
                             !.ocr = @ + CsvOcrCalls(ex.doc.rows),
                             !.tiers = Append(@, TierRun("pandas", "text",
                                                         csv_report(ex.doc))),
                             !.result = Returned(csv_report(ex.doc))]
    /\ UNCHANGED <<load_truncated, ask_vars, proc_vars, chunk_vars, rag_vars, del_vars>>

\* lines 437-445: the file read as text behind the marker, or the first
\* error raised again when the read fails too
CsvRaw ==
    /\ ex.pc = "csv_except"
    /\ LET r == ex.doc.raw
       IN  ex' = [ex EXCEPT !.pc = "done",
                      !.tiers = Append(@, TierRun("raw", Outcome(r.outcome = "raise", r.text),
                                                  r.text)),
                      !.result = IF r.outcome = "raise"
                                 THEN Raised(CsvReraise("pandas error", "open error"))
                                 ELSE Returned(<<"[RAW CSV CONTENT]">> \o r.text)]
    /\ UNCHANGED <<load_truncated, ask_vars, proc_vars, chunk_vars, rag_vars, del_vars>>

-----------------------------------------------------------------------------
(* SpecExtract: one call of one extractor on every enumerated file *)

InitExtract ==
    /\ \/ \E n \in 0..MaxPages :
              \E f \in Opened(n, FitzPageSet), q \in Opened(n, PyPdfPageSet),
                 r \in Opened(n, {"text", "blank"}) :
                  ex = PdfCall(PdfDoc(f, q, r))
       \/ ex \in {DocxCall(d) : d \in DocxDocs} \cup {CsvCall(d) : d \in CsvDocs}
    /\ load_truncated = FALSE
    /\ InitAskIdle
    /\ InitDelIdle
    /\ InitRagIdle
    /\ chunk_size = DefaultChunkSize
    /\ chunk_overlap = DefaultChunkOverlap
    /\ text = <<>>
    /\ cpc = "done"
    /\ start = 0
    /\ end = 0
    /\ chunks = <<>>
    /\ windows = <<>>

NextExtract ==
    \/ PdfFitz
    \/ PdfPyPdf2
    \/ PdfOcr
    \/ DocxPrimary
    \/ DocxRetry
    \/ DocxExcept
    \/ CsvParse
    \/ CsvRaw

SpecExtract == InitExtract /\ [][NextExtract]_vars

-----------------------------------------------------------------------------
(* Properties of the extractors, under SpecExtract *)

\* the runs of the strategies of this call, by name
RunsOf(name) == SelectSeq(ex.tiers, LAMBDA r : r.tier = name)

Ran(name) == Len(RunsOf(name)) > 0

\* the strategy ran and produced no text or raised
Fruitless(name) == Ran(name) /\ RunsOf(name)[1].outcome \in {"empty", "failed"}

\* C13: _process_pdf ends by returning a text, never by raising, whatever each
\* of the three strategies does (text, nothing, raise); and when each of the
\* three ran without producing text, the value returned is the marker
\* "[UNABLE TO EXTRACT TEXT FROM DOCUMENT: name]".
C13_PdfAlwaysReturns ==
    (ex.kind = "pdf" /\ ex.pc = "done")
    => /\ ex.result.kind = "returned"
       /\ ~Blank(ex.result.text)
       /\ (Fruitless("fitz") /\ Fruitless("pypdf") /\ Fruitless("ocr"))
              => ex.result.text = <<UnableToExtract(ex.doc.name)>>

\* the zero-byte file: every library raises on it
C13_Witness ==
    /\ ex.kind = "pdf"
    /\ ex.pc = "done"
    /\ ex.doc.fitz.open = "raise"
    /\ ex.doc.pypdf.open = "raise"
    /\ ex.doc.raster.open = "raise"
    /\ Len(ex.tiers) = 3
    /\ ex.result = Returned(<<"[UNABLE TO EXTRACT TEXT FROM DOCUMENT: scan.pdf]">>)

\* whether piece x occurs in text t
Has(t, x) == \E k \in 1..Len(t) : t[k] = x

\* C14: every failure in _process_pdf is recovered locally: when the first
\* or the second strategy raises, at any page and whatever text it had
\* gathered, the next strategy is attempted; and an image that cannot be
\* processed leaves its placeholder next to the text of its page, the call
\* still returning a text.
C14_FailureTriesNextTier ==
    (ex.kind = "pdf" /\ ex.pc = "done")
    => /\ (Ran("fitz") /\ RunsOf("fitz")[1].outcome = "failed") => Ran("pypdf")
       /\ (Ran("pypdf") /\ RunsOf("pypdf")[1].outcome = "failed") => Ran("ocr")
       /\ ex.result.kind = "returned"
       /\ (Ran("fitz") /\ RunsOf("fitz")[1].outcome = "text")
          => \A n \in 1..Len(ex.doc.fitz.pages) :
                 ex.doc.fitz.pages[n].images = <<"error", "ocr">>
                 => /\ Has(ex.result.text, "[PAGE " \o Digit[n + 1] \o "]")
                    /\ Has(ex.result.text,
                           "[UNPROCESSED IMAGE 1 ON PAGE " \o Digit[n + 1] \o "]")
                    /\ Has(ex.result.text,
                           "[IMAGE 2 ON PAGE " \o Digit[n + 1] \o "]")

\* C15: _process_docx attempts the paragraph-based extractor whenever
\* docx2txt raised or left only blank text, and it raises only when both
\* docx2txt and the paragraph-based extractor raised, the error raised being
\* the one of docx2txt.
C15_DocxFallback ==
    (ex.kind = "docx" /\ ex.pc = "done")
    => /\ Ran("docx2txt")
       /\ RunsOf("docx2txt")[1].outcome \in {"failed", "empty"} => Ran("python-docx")
       /\ ex.result.kind \in {"returned", "raised"}
       /\ ex.result.kind = "raised"
          => /\ ex.doc.primary.outcome = "raise"
             /\ ex.doc.fallback.outcome = "raise"
             /\ Ran("python-docx")
             /\ ex.result.err = "docx2txt error"

\* both extractors raise
C15_Witness ==
    /\ ex.kind = "docx"
    /\ ex.pc = "done"
    /\ ex.doc.primary.outcome = "raise"
    /\ ex.doc.fallback.outcome = "raise"
    /\ Len(ex.tiers) = 2
    /\ ex.result.kind = "raised"

\* C16 as stated: _process_csv never raises: whenever parsing fails it
\* returns the file content read as text behind the raw-content marker,
\* whatever the outcome of the parse and of the raw read.
C16_CsvNeverRaises ==
    (ex.kind = "csv" /\ ex.pc = "done")
    => /\ ex.result.kind = "returned"
       /\ ex.doc.parse = "raise"
          => ex.result.text = <<"[RAW CSV CONTENT]">> \o ex.doc.raw.text

\* C16 amended: when parsing fails and the file can be read as text,
\* _process_csv returns that text behind the raw-content marker; it raises
\* only when parsing failed and the raw read failed too, and the error it
\* raises is the one of the parse.
C16_CsvRawOrReraise ==
    (ex.kind = "csv" /\ ex.pc = "done")
    => /\ ex.result.kind \in {"returned", "raised"}
       /\ (ex.doc.parse = "raise" /\ ex.doc.raw.outcome = "ok")
          => ex.result = Returned(<<"[RAW CSV CONTENT]">> \o ex.doc.raw.text)
       /\ ex.result.kind = "raised"
          => /\ ex.doc.parse = "raise"
             /\ ex.doc.raw.outcome = "raise"
             /\ ex.result.err = "pandas error"

\* a file pandas rejects, returned as raw text
C16_Witness ==
    /\ ex.kind = "csv"
    /\ ex.pc = "done"
    /\ ex.doc.parse = "raise"
    /\ ex.result = Returned(<<"[RAW CSV CONTENT]", "part;drawing">>)

\* C17: a cell whose value has an image-file name but names no existing file
\* is rendered as its literal text, OCR runs only for the cells naming files
\* that exist and open, and every row of the table is rendered, the call
\* returning the report.
C17_MissingImageCell ==
    (ex.kind = "csv" /\ ex.pc = "done" /\ ex.doc.parse = "ok")
    => LET rows == ex.doc.rows
           n == Len(rows)
       IN  /\ ex.result.kind = "returned"
           /\ Len(ex.result.text) = 3 + 3 * n + 3
           /\ \A i \in 1..n : \A j \in {1, 2} :
                  rows[i][j] = "ghost.png"
                  => ex.result.text[3 + 3 * (i - 1) + 2 * j - 1] = "ghost.png"
           /\ ex.ocr = Cardinality({<<i, j>> \in (1..n) \X {1, 2} :
                                       rows[i][j] \in {"plan.png", "blank.jpg"}})
           /\ ex.result.text[3 + 3 * n + 2] = "Total Rows: " \o Digit[n + 1]

\* a missing image in the first row, before a cell and a row with real images
C17_Witness ==
    /\ ex.kind = "csv"
    /\ ex.pc = "done"
    /\ ex.doc.rows = <<<<"ghost.png", "plan.png">>, <<"bolt", "broken.png">>>>
    /\ ex.result.kind = "returned"
    /\ ex.result.text[4] = "ghost.png"
    /\ ex.result.text[6] = "[IMAGE: plan.png] M8 x 40"
    /\ ex.ocr = 1

\* C18: every temporary directory _process_docx created has been removed
\* when the call returns or raises, on every exit path.
C18_TempDirsRemoved ==
    (ex.kind = "docx" /\ ex.pc = "done")
    => /\ ex.temp_made = 1
       /\ ex.temp_live = 0

-----------------------------------------------------------------------------
(* RAGService.query and RAGService.generate_response *)

MaxResults == 3     \* largest n_results asked for

MaxMatches == 2     \* longest context handed to generate_response directly

\* a Python float, and the value None
Float(x) == [float |-> x]
NoneValue == [none |-> TRUE]

\* a collection as two add_document calls leave it: the three chunks of
\* long.TXT and the chunk of note.txt
SeededStore ==
    LET a == process(LongTxt, Some(UploadMeta), 0).chunks
        b == process(NoteTxt, Some(EmptyDict), 1).chunks
    IN  Records(uuid4s(0, Len(a)), Documents(a), Metadatas(a))
        \o Records(uuid4s(Len(a), Len(b)), Documents(b), Metadatas(b))

\* the "where" arguments explored: none, one matching the first chunk of
\* each document, one matching nothing
Filters == {None, Some([chunk_index |-> 0]), Some([chunk_index |-> 9])}

\* the "include" arguments explored: the default, one without distances, one
\* without documents
Includes ==
    {{"documents", "metadatas", "distances"}, {"documents", "metadatas"},
     {"metadatas", "distances"}}

\* whether a stored metadata satisfies where=f
Matches(meta, f) ==
    \A key \in DOMAIN f : key \in DOMAIN meta /\ meta[key] = f[key]

\* the positions of the records that satisfy the filter
Candidates(st, flt) ==
    {k \in 1..Len(st) : Len(flt) = 0 \/ Matches(st[k].metadata, flt[1])}

\* the rankings the collection may answer with: the min(n_results, matching)
\* nearest records, by ascending distance, ties in any order
Rankings(st, dist, flt, n_results) ==
    LET cand == Candidates(st, flt)
        m == Min(n_results, Cardinality(cand))
    IN  {r \in [1..m -> cand] :
           /\ \A i, j \in 1..m : i < j => r[i] # r[j] /\ dist[r[i]] <= dist[r[j]]
           /\ \A k \in cand :
                  (\A i \in 1..m : r[i] # k) => \A i \in 1..m : dist[r[i]] <= dist[k]}

\* the dict collection.query returns for one query text: one inner list per
\* query text under each key, and None (here the empty sequence, falsy too)
\* under a key that was not included
QueryResults(st, dist, r, include) ==
    [ids |-> << [i \in 1..Len(r) |-> st[r[i]].id] >>,
     documents |-> IF "documents" \in include
                   THEN << [i \in 1..Len(r) |-> st[r[i]].document] >> ELSE <<>>,
     metadatas |-> IF "metadatas" \in include
                   THEN << [i \in 1..Len(r) |-> st[r[i]].metadata] >> ELSE <<>>,
     distances |-> IF "distances" \in include
                   THEN << [i \in 1..Len(r) |-> Float(dist[r[i]])] >> ELSE <<>>]

\* 'distances' in results and results['distances']
HasDistances(results) == Len(results.distances) > 0

QueryDoc_First(results, i) ==
    IF HasDistances(results)
    THEN [id |-> results.ids[1][1], content |-> results.documents[1][1],
          metadata |-> results.metadatas[1][1], score |-> results.distances[1][1]]
    ELSE [id |-> results.ids[1][1], content |-> results.documents[1][1],
          metadata |-> results.metadatas[1][1]]

\* lines 113-121: the match built from index i of the parallel lists
QueryDoc(results, i) ==
    IF HasDistances(results)
    THEN [id |-> results.ids[1][i], content |-> results.documents[1][i],
          metadata |-> results.metadatas[1][i], score |-> results.distances[1][i]]
    ELSE [id |-> results.ids[1][i], content |-> results.documents[1][i],
          metadata |-> results.metadatas[1][i]]

\* lines 111-126; indexing None (a list that was not included) raises, and
\* "except ...: raise" passes the error on
query_format(results) ==
    LET n == Len(results.ids[1])
    IN  IF n > 0 /\ (Len(results.documents) = 0 \/ Len(results.metadatas) = 0)
        THEN [raised |-> TRUE, documents |-> <<>>]
        ELSE [raised |-> FALSE, documents |-> [i \in 1..n |-> QueryDoc(results, i)]]

\* the matches a caller may hand to generate_response: complete; without a
\* score and without a source; with score None; with metadata None; without
\* the key 'content'; without the key 'metadata'
MatchSet ==
    {[id |-> 1, content |-> <<"a">>, metadata |-> [source |-> "web"], score |-> Float(2)],
     [id |-> 2, content |-> <<"b">>, metadata |-> [title |-> "Note"]],
     [id |-> 3, content |-> <<"a">>, metadata |-> [source |-> "web"], score |-> NoneValue],
     [id |-> 4, content |-> <<"a">>, metadata |-> NoneValue, score |-> Float(2)],
     [id |-> 5, metadata |-> [source |-> "web"], score |-> Float(2)],
     [id |-> 6, content |-> <<"a">>]}

Contexts == UNION {[1..n -> MatchSet] : n \in 0..MaxMatches}

\* the exception the f-string of lines 145-147 raises for a match, "" when
\* it raises none: ':.2f' of a score that is no number, a missing key,
\* '.get' on a metadata that is no dict
DocError(doc) ==
    IF "score" \in DOMAIN doc /\ "float" \notin DOMAIN doc.score
        THEN "TypeError: unsupported format string"
    ELSE IF "metadata" \notin DOMAIN doc THEN "KeyError: 'metadata'"
    ELSE IF "none" \in DOMAIN doc.metadata
        THEN "AttributeError: 'NoneType' object has no attribute 'get'"
    ELSE IF "content" \notin DOMAIN doc THEN "KeyError: 'content'"
    ELSE ""

\* the first exception of the join over the matches, "" when there is none
RECURSIVE FirstError(_, _)
FirstError(context, i) ==
    IF i > Len(context) THEN ""
    ELSE IF DocError(context[i]) # "" THEN DocError(context[i])
    ELSE FirstError(context, i + 1)

\* one block of context_text
ContextBlock(doc, i) ==
    [number |-> i,
     relevance |-> IF "score" \in DOMAIN doc THEN doc.score.float ELSE 0,
     source |-> IF "source" \in DOMAIN doc.metadata THEN doc.metadata.source
                ELSE "Unknown",
     content |-> doc.content]

Sources_Reversed(context) ==
    [i \in 1..Len(context) |-> context[Len(context) + 1 - i].metadata]

\* [doc['metadata'] for doc in context]
Sources(context) == [i \in 1..Len(context) |-> context[i].metadata]

Apology == "I'm sorry, I encountered an error processing your request."

\* generate_response(query, context): the whole body is in one try
generate_response(query, context) ==
    IF FirstError(context, 1) # ""
    THEN [answer |-> Apology, sources |-> <<>>, error |-> FirstError(context, 1)]
    ELSE [answer |-> "I found " \o Digit[Len(context) + 1]
                     \o " relevant documents regarding your question about '"
                     \o query \o "'.",
          sources |-> Sources(context),
          context |-> [i \in 1..Len(context) |-> ContextBlock(context[i], i)]]

(* SpecAsk: a query against a seeded collection, then generate_response on *)
(* its matches; or generate_response on a context of the caller's own      *)

NoResponse == [answer |-> ""]

StartAsk(dist) ==
    [pc |-> "start", query |-> "bolts", dist |-> dist, n_results |-> 0,
     filter |-> None, include |-> {}, results |-> QueryResults(<<>>, <<>>, <<>>, {}),
     raised |-> FALSE, documents |-> <<>>, context |-> <<>>, response |-> NoResponse,
     attempts |-> 0, faults |-> 0]

\* query(text, n_results, filter_metadata, include) when the collection
\* answers with ranking r
Query(n_results, flt, include, r) ==
    /\ qr.pc = "start"
    /\ LET results == QueryResults(store, qr.dist, r, include)
           fmt == query_format(results)
       IN  qr' = [qr EXCEPT !.pc = IF fmt.raised THEN "done" ELSE "found",
                            !.n_results = n_results, !.filter = flt,
                            !.include = include, !.results = results,
                            !.raised = fmt.raised, !.documents = fmt.documents,
                            !.attempts = @ + 1]
    /\ UNCHANGED <<ext_vars, proc_vars, chunk_vars, rag_vars, del_vars>>

OnQueryError_Empty == FALSE

\* "except Exception as e: logger.error(...); raise": whether the error of
\* collection.query leaves query
OnQueryError == TRUE

\* query when collection.query raises: logged and raised again
QueryFails(n_results, flt, include) ==
    /\ qr.pc = "start"
    /\ qr' = [qr EXCEPT !.pc = "done", !.n_results = n_results, !.filter = flt,
                        !.include = include, !.raised = OnQueryError,
                        !.attempts = @ + 1, !.faults = @ + 1]
    /\ UNCHANGED <<ext_vars, proc_vars, chunk_vars, rag_vars, del_vars>>

\* main.query_documents: generate_response on what query returned
GenerateResponse ==
    /\ qr.pc = "found"
    /\ qr' = [qr EXCEPT !.pc = "done", !.context = qr.documents,
                        !.response = generate_response(qr.query, qr.documents)]
    /\ UNCHANGED <<ext_vars, proc_vars, chunk_vars, rag_vars, del_vars>>

\* generate_response called with a context of the caller's own
GenerateResponseOn(context) ==
    /\ qr.pc = "start"
    /\ qr' = [qr EXCEPT !.pc = "done", !.context = context,
                        !.response = generate_response(qr.query, context)]
    /\ UNCHANGED <<ext_vars, proc_vars, chunk_vars, rag_vars, del_vars>>

InitAsk ==
    /\ chunk_size = DefaultChunkSize
    /\ chunk_overlap = DefaultChunkOverlap
    /\ qr \in {StartAsk(dist) : dist \in [1..Len(SeededStore) -> {2, 7}]}
    /\ store = SeededStore
    /\ next_uuid = Len(SeededStore)
    /\ call = <<>>
    /\ add_log = <<>>
    /\ clock = 2
    /\ InitExtIdle
    /\ InitDelIdle
    /\ text = <<>>
    /\ cpc = "done"
    /\ start = 0
    /\ end = 0
    /\ chunks = <<>>
    /\ windows = <<>>

NextAsk ==
    \/ \E n \in 1..MaxResults, flt \in Filters, inc \in Includes :
           \E r \in Rankings(store, qr.dist, flt, n) : Query(n, flt, inc, r)
    \/ \E n \in 1..MaxResults, flt \in Filters, inc \in Includes :
           QueryFails(n, flt, inc)
    \/ GenerateResponse
    \/ \E context \in Contexts : GenerateResponseOn(context)

SpecAsk == InitAsk /\ [][NextAsk]_vars

-----------------------------------------------------------------------------
(* Properties of query and generate_response, under SpecAsk *)

\* a match generate_response can format: both keys, a dict as metadata, a
\* number as score when there is one
WellFormed(doc) ==
    /\ "metadata" \in DOMAIN doc
    /\ "content" \in DOMAIN doc
    /\ "none" \notin DOMAIN doc.metadata
    /\ "score" \in DOMAIN doc => "float" \in DOMAIN doc.score

\* C19: a query that returns yields one match per id of the collection's
\* answer, in the answer's order (ascending distance), none repeated; match i
\* carries the id, the content and the metadata at index i of the parallel
\* lists; every match has a score (the distance at index i) when the answer
\* has distances and no match has one when it has none.
C19_QueryMatches ==
    (qr.pc \in {"found", "done"} /\ qr.n_results > 0 /\ ~qr.raised)
    => LET ids == qr.results.ids[1]
           docs == qr.documents
           n == Len(ids)
       IN  /\ Len(docs) = n
           /\ Cardinality({docs[i].id : i \in 1..n}) = n
           /\ \A i \in 1..n :
                  /\ docs[i].id = ids[i]
                  /\ docs[i].content = qr.results.documents[1][i]
                  /\ docs[i].metadata = qr.results.metadatas[1][i]
                  /\ "distances" \in qr.include
                     => /\ "score" \in DOMAIN docs[i]
                        /\ docs[i].score = qr.results.distances[1][i]
                  /\ "distances" \notin qr.include
                     => DOMAIN docs[i] = {"id", "content", "metadata"}
           /\ "distances" \in qr.include
              => \A i, j \in 1..n :
                     i < j => docs[i].score.float <= docs[j].score.float

\* three matches with scores, the best one not the first record stored
C19_Witness ==
    /\ qr.pc = "found"
    /\ Len(qr.documents) = 3
    /\ "distances" \in qr.include
    /\ qr.documents[1].score = Float(2)
    /\ qr.documents[3].score = Float(7)
    /\ qr.documents[1].id = store[4].id
    /\ qr.documents[1].content = NoteText

\* C20: generate_response ends with a result for every query and context:
\* when a match cannot be formatted (a score that is no number, a metadata
\* that is no dict, a missing key) the result is the fixed apology with no
\* sources and an error text; otherwise its sources are the metadata of the
\* matches, one per match, in the order of the matches.
C20_GenerateNeverRaises ==
    (qr.pc = "done" /\ qr.response # NoResponse)
    => LET ctx == qr.context
           resp == qr.response
       IN  /\ {"answer", "sources"} \subseteq DOMAIN resp
           /\ IF \A i \in 1..Len(ctx) : WellFormed(ctx[i])
              THEN /\ "error" \notin DOMAIN resp
                   /\ resp.answer # Apology
                   /\ Len(resp.sources) = Len(ctx)
                   /\ \A i \in 1..Len(ctx) : resp.sources[i] = ctx[i].metadata
              ELSE /\ resp.answer = Apology
                   /\ resp.sources = <<>>
                   /\ "error" \in DOMAIN resp
                   /\ resp.error # ""

\* a match without a score formats; the one after it, whose score is None,
\* does not
C20_Witness ==
    /\ qr.pc = "done"
    /\ Len(qr.context) = 2
    /\ "score" \notin DOMAIN qr.context[1]
    /\ WellFormed(qr.context[1])
    /\ "score" \in DOMAIN qr.context[2]
    /\ qr.context[2].score = NoneValue
    /\ qr.response.answer = Apology
    /\ qr.response.sources = <<>>

-----------------------------------------------------------------------------
(* RAGService.delete_document *)

MaxDeletes == 2     \* delete_document calls in one behaviour

\* a dict that names its document
TaggedMeta == [title |-> "Note", document_id |-> "d2"]

\* the document ids asked to be deleted: two that requests carry, one that
\* no request carries
DocumentIds == {"d1", "d2", "d9"}

\* where={"document_id": document_id}
References(r, d) ==
    "document_id" \in DOMAIN r.metadata /\ r.metadata.document_id = d

CollectionGet_All(st, d) == [k \in 1..Len(st) |-> st[k].id]

\* collection.get(where=..., include=[])['ids']
CollectionGet(st, d) ==
    LET hits == SelectSeq(st, LAMBDA r : References(r, d))
    IN  [k \in 1..Len(hits) |-> hits[k].id]

\* collection.delete(ids=ids)
CollectionDelete(st, ids) ==
    SelectSeq(st, LAMBDA r : \A k \in 1..Len(ids) : r.id # ids[k])

\* "if results['ids']"
HasIds(ids) == Len(ids) > 0

OnDeleteError_Raise == [ret |-> FALSE, raised |-> TRUE]

\* "except Exception as e: logger.error(...); return False"
OnDeleteError == [ret |-> FALSE, raised |-> FALSE]

\* delete_document(document_id) on collection st; get_ok and delete_ok tell
\* whether collection.get and collection.delete answer or raise
delete_document(st, d, get_ok, delete_ok) ==
    LET ids == CollectionGet(st, d)
    IN  IF ~get_ok
        THEN [store |-> st, document_id |-> d, gets |-> <<[ok |-> FALSE]>>,
              deletes |-> <<>>, ret |-> OnDeleteError.ret,
              raised |-> OnDeleteError.raised]
        ELSE IF HasIds(ids) /\ delete_ok
        THEN [store |-> CollectionDelete(st, ids), document_id |-> d,
              gets |-> <<[ok |-> TRUE]>>, deletes |-> <<[ok |-> TRUE, ids |-> ids]>>,
              ret |-> TRUE, raised |-> FALSE]
        ELSE IF HasIds(ids)
        THEN [store |-> st, document_id |-> d, gets |-> <<[ok |-> TRUE]>>,
              deletes |-> <<[ok |-> FALSE, ids |-> ids]>>,
              ret |-> OnDeleteError.ret, raised |-> OnDeleteError.raised]
        ELSE [store |-> st, document_id |-> d, gets |-> <<[ok |-> TRUE]>>,
              deletes |-> <<>>, ret |-> FALSE, raised |-> FALSE]

\* what is kept of the n-th call: everything but the collection
Ended(res, n) ==
    [n |-> n, document_id |-> res.document_id, gets |-> res.gets,
     deletes |-> res.deletes, ret |-> res.ret, raised |-> res.raised]

\* no add_document call is between two batches: delete_document and query
\* have no suspension point either, so one service runs them one at a time
Quiet == \A c \in CallIds : call[c].pc # "adding"

EndDelete(d, get_ok, delete_ok) ==
    /\ Quiet
    /\ del_call.n < MaxDeletes
    /\ LET res == delete_document(store, d, get_ok, delete_ok)
       IN  /\ store' = res.store
           /\ del_call' = Ended(res, del_call.n + 1)
    /\ UNCHANGED <<call, next_uuid, add_log, clock, proc_vars, chunk_vars,
                   ext_vars, ask_vars>>

\* a call whose store operations answer
DeleteDocument(d) == EndDelete(d, TRUE, TRUE)

\* a call whose collection.get raises
DeleteDocumentGetFails(d) == EndDelete(d, FALSE, TRUE)

\* a call whose collection.delete raises
DeleteDocumentDeleteFails(d) ==
    /\ HasIds(CollectionGet(store, d))
    /\ EndDelete(d, TRUE, FALSE)

-----------------------------------------------------------------------------
(* A collection that ranks by substring containment *)

DefaultResults == 5

\* whether s occurs in t as a contiguous run
Contains(t, s) ==
    \E k \in 0..(Len(t) - Len(s)) : SubSeq(t, k + 1, k + Len(s)) = s

\* distance 0 to a record whose document contains the query text, 1 to
\* every other
StubDistance(st, s) ==
    [k \in 1..Len(st) |-> IF Contains(st[k].document, s) THEN 0 ELSE 1]

\* the min(n_results, count) nearest of the records that satisfy the
\* filter, ties in insertion order
StubRanking(st, s, flt, n_results) ==
    LET all == SelectSeq([k \in 1..Len(st) |-> k],
                         LAMBDA k : Len(flt) = 0 \/ Matches(st[k].metadata, flt[1]))
        order == SelectSeq(all, LAMBDA k : Contains(st[k].document, s))
                 \o SelectSeq(all, LAMBDA k : ~Contains(st[k].document, s))
    IN  SubSeq(order, 1, Min(n_results, Len(order)))

\* query(s, n_results, filter_metadata) with the default include
AnswerSubstring(s, n_results, flt) ==
    /\ qr.pc = "start"
    /\ LET dist == StubDistance(store, s)
           include == {"documents", "metadatas", "distances"}
           results == QueryResults(store, dist, StubRanking(store, s, flt, n_results),
                                   include)
           fmt == query_format(results)
       IN  qr' = [qr EXCEPT !.pc = IF fmt.raised THEN "done" ELSE "found",
                            !.query = s, !.dist = dist, !.filter = flt,
                            !.n_results = n_results, !.include = include,
                            !.results = results, !.raised = fmt.raised,
                            !.documents = fmt.documents, !.attempts = @ + 1]
    /\ UNCHANGED <<ext_vars, proc_vars, chunk_vars, rag_vars, del_vars>>

\* the query of a service that runs one call at a time
QuerySubstring(s, n_results) ==
    /\ Quiet
    /\ AnswerSubstring(s, n_results, None)

-----------------------------------------------------------------------------
(* SpecService: one service on a seeded collection: add_document,          *)
(* delete_document and query calls, one at a time, in every order          *)

\* a file ingested as the upload route does (no document_id), and two
\* ingested under a document_id each
ServiceRequests ==
    {<<NoteTxt, Some(UploadMeta)>>, <<LongTxt, Some(CollidingMeta)>>,
     <<NoteTxt, Some(TaggedMeta)>>}

QueryTexts == {<<"a", "b">>}

InitService ==
    /\ chunk_size = DefaultChunkSize
    /\ chunk_overlap = DefaultChunkOverlap
    /\ store = SeededStore
    /\ call = [c \in CallIds |-> IdleCall]
    /\ next_uuid = Len(SeededStore)
    /\ add_log = <<>>
    /\ clock = 2
    /\ qr = StartAsk(<<>>)
    /\ InitExtIdle
    /\ InitDelIdle
    /\ text = <<>>
    /\ cpc = "done"
    /\ start = 0
    /\ end = 0
    /\ chunks = <<>>
    /\ windows = <<>>

NextService ==
    \/ \E c \in CallIds, r \in ServiceRequests : AddDocument(c, r[1], r[2])
    \/ \E c \in CallIds : CollectionAdd(c)
    \/ \E c \in CallIds : CollectionAddFails(c)
    \/ \E d \in DocumentIds : DeleteDocument(d)
    \/ \E d \in DocumentIds : DeleteDocumentGetFails(d)
    \/ \E d \in DocumentIds : DeleteDocumentDeleteFails(d)
    \/ \E s \in QueryTexts : QuerySubstring(s, DefaultResults)
    \/ QueryFails(DefaultResults, None, {"documents", "metadatas", "distances"})

SpecService == InitService /\ [][NextService]_vars

-----------------------------------------------------------------------------
(* Properties of delete_document, under SpecService *)

\* C21: a delete_document(d) call whose store operations answer removes
\* exactly the stored chunks whose metadata references d, with one
\* collection.delete call that names exactly their ids, and leaves every
\* other chunk as it was, in place; whatever the store does the call makes
\* at most one delete call, touches no chunk of another document and returns
\* true exactly when a chunk was removed; when no chunk matches it returns
\* false without error, makes no delete call and leaves the store unchanged.
C21_DeleteFrame ==
    [][del_call'.n > del_call.n =>
         LET e == del_call'
             hit == SelectSeq(store, LAMBDA r : References(r, e.document_id))
             rest == SelectSeq(store, LAMBDA r : ~References(r, e.document_id))
             answered == e.gets[1].ok /\ \A k \in 1..Len(e.deletes) : e.deletes[k].ok
         IN  /\ Len(e.deletes) <= 1
             /\ answered => store' = rest
             /\ (answered /\ Len(hit) > 0)
                    => /\ Len(e.deletes) = 1
                       /\ e.deletes[1].ids = [k \in 1..Len(hit) |-> hit[k].id]
             /\ SelectSeq(store', LAMBDA r : ~References(r, e.document_id)) = rest
             /\ e.ret <=> Len(store') < Len(store)
             /\ Len(hit) = 0 => /\ ~e.ret
                                /\ ~e.raised
                                /\ e.deletes = <<>>
                                /\ store' = store
    ]_vars

\* the three chunks of the second ingested document deleted by their
\* document_id, the chunks of the first (another document_id) and the seeded
\* ones (no document_id) still stored
C21_Witness ==
    /\ del_call.n = 1
    /\ del_call.document_id = "d1"
    /\ del_call.ret
    /\ Len(del_call.deletes) = 1
    /\ del_call.deletes[1].ids = <<6, 7, 8>>
    /\ Len(store) = Len(SeededStore) + 1
    /\ References(store[5], "d2")

\* the collection.add calls of call c are made once each: no two of them
\* carry a common id, and one that raised is the last
AddsOnce(c) ==
    LET a == AddsOf(c)
    IN  /\ \A i, j \in 1..Len(a) :
               i < j => Range(a[i].ids) \cap Range(a[j].ids) = {}
        /\ \A i \in 1..Len(a) : ~a[i].ok => i = Len(a)

\* a store operation of the latest delete_document call raised
DeleteFault ==
    /\ del_call.n > 0
    /\ \/ ~del_call.gets[1].ok
       \/ \E k \in 1..Len(del_call.deletes) : ~del_call.deletes[k].ok

\* add_document and query make each store operation at most once per call
\* and let the error of a failing one leave the call
AddAndQuerySurface ==
    /\ \A c \in CallIds :
           /\ AddsOnce(c)
           /\ (\E i \in 1..Len(AddsOf(c)) : ~AddsOf(c)[i].ok)
                  => call[c].pc = "raised" /\ call[c].err = StoreError
    /\ qr.attempts <= 1
    /\ qr.faults > 0 => qr.pc = "done" /\ qr.raised

\* C23 as stated: in add_document, query and delete_document alike each
\* store operation is attempted at most once per call and the error of a
\* failing one is surfaced, never turned into a normal return value.
C23_StoreErrorsSurface ==
    /\ AddAndQuerySurface
    /\ Len(del_call.gets) <= 1
    /\ Len(del_call.deletes) <= 1
    /\ DeleteFault => del_call.raised

\* C23, amended: add_document and query surface the error of a failing
\* store operation; delete_document attempts each store operation at most
\* once too, but turns a failing collection.get or collection.delete into
\* the return value false, raising nothing.
C23_StoreErrorsSurfaceButDelete ==
    /\ AddAndQuerySurface
    /\ Len(del_call.gets) <= 1
    /\ Len(del_call.deletes) <= 1
    /\ DeleteFault => ~del_call.raised /\ ~del_call.ret

\* a failed collection.add, a failed collection.query and a failed
\* collection.delete in one behaviour
C23_Witness ==
    /\ \E c \in CallIds : call[c].pc = "raised" /\ call[c].err = StoreError
    /\ qr.faults = 1
    /\ qr.raised
    /\ del_call.n > 0
    /\ del_call.gets[1].ok
    /\ Len(del_call.deletes) = 1
    /\ ~del_call.deletes[1].ok
    /\ ~del_call.ret

\* the document_id the caller of call c supplied, if any
Tagged(c, d) ==
    /\ Len(call[c].arg) > 0
    /\ "document_id" \in DOMAIN call[c].arg[1]
    /\ call[c].arg[1].document_id = d

Untagged(c) ==
    Len(call[c].arg) = 0 \/ "document_id" \notin DOMAIN call[c].arg[1]

\* C29: after add_document has stored a document's chunks, a
\* delete_document(d) call (whose store operations answer) removes them if
\* and only if the caller-supplied metadata had document_id = d, and
\* otherwise leaves them as they are; a stored chunk has a document_id only
\* if the caller supplied it; so the chunks ingested without one, the seeded
\* ones included, are all still stored after any sequence of deletes.
C29_IngestThenDelete ==
    /\ [](\A c \in CallIds :
            /\ \A k \in 1..Len(call[c].chunks) :
                   LET m == call[c].chunks[k].metadata
                   IN  IF Untagged(c) THEN "document_id" \notin DOMAIN m
                       ELSE m.document_id = call[c].arg[1].document_id
            /\ (call[c].pc = "returned" /\ Untagged(c))
                   => StoredOf(c) = FirstRecords(c, Len(call[c].ids)))
    /\ [](SubSeq(store, 1, Len(SeededStore)) = SeededStore)
    /\ [][del_call'.n > del_call.n =>
            \A c \in CallIds :
                LET e == del_call'
                    answered == e.gets[1].ok
                                /\ \A k \in 1..Len(e.deletes) : e.deletes[k].ok
                IN  (call[c].pc = "returned" /\ Len(StoredOf(c)) > 0)
                    => IF Tagged(c, e.document_id) /\ answered
                       THEN StoredOf(c)' = <<>>
                       ELSE StoredOf(c)' = StoredOf(c)
       ]_vars

\* a file ingested as the upload route does and a file ingested under
\* document_id d1, then two deletes, the last one of d1: the chunks of the
\* second file are gone, the chunk of the first is stored
C29_Witness ==
    /\ del_call.n = 2
    /\ del_call.document_id = "d1"
    /\ del_call.ret
    /\ call[1].pc = "returned"
    /\ call[1].arg = Some(UploadMeta)
    /\ StoredOf(1) = FirstRecords(1, 1)
    /\ call[2].pc = "returned"
    /\ call[2].arg = Some(CollidingMeta)
    /\ Len(call[2].ids) = 3
    /\ StoredOf(2) = <<>>

-----------------------------------------------------------------------------
(* SpecRound: a plain-text file of every small content is ingested by a    *)
(* service whose processor has every small configuration, then queried    *)
(* with a substring of the content, the collection ranking by containment *)

\* the non-empty contiguous runs of t
Substrings(t) ==
    {SubSeq(t, w[1], w[2]) :
        w \in {v \in (1..Len(t)) \X (1..Len(t)) : v[1] <= v[2]}}

InitRound ==
    /\ chunk_size \in 1..MaxSize
    /\ chunk_overlap \in 0..MaxOverlap
    /\ text \in SmallTexts
    /\ store = <<>>
    /\ call = [c \in CallIds |-> IdleCall]
    /\ next_uuid = 0
    /\ add_log = <<>>
    /\ clock = 0
    /\ qr = StartAsk(<<>>)
    /\ InitExtIdle
    /\ InitDelIdle
    /\ cpc = "done"
    /\ start = 0
    /\ end = 0
    /\ chunks = <<>>
    /\ windows = <<>>

\* the query that follows the ingestion
QueryAfterIngest(s, n_results) ==
    /\ call[1].pc = "returned"
    /\ QuerySubstring(s, n_results)

NextRound ==
    \/ AddDocument(1, AnyTxt, None)
    \/ CollectionAdd(1)
    \/ \E s \in Substrings(text), n \in {1, DefaultResults} : QueryAfterIngest(s, n)

SpecRound == InitRound /\ [][NextRound]_vars

\* C22 as stated: after T is ingested, a query with any non-empty substring
\* s of T, of any length, returns at least one match whose content contains s.
C22_RoundTrip ==
    qr.pc = "found"
    => \E i \in 1..Len(qr.documents) : Contains(qr.documents[i].content, qr.query)

\* C22, amended: after T is ingested, a query with a non-empty substring s
\* of T that is no longer than min(chunk_overlap, chunk_size // 2) + 1
\* characters, or with any substring when T is no longer than chunk_size,
\* returns a first match whose content contains s.
C22_RoundTripWithinOverlap ==
    (/\ qr.pc = "found"
     /\ \/ Len(qr.query) <= Min(chunk_overlap, chunk_size \div 2) + 1
        \/ Len(text) <= chunk_size)
    => /\ Len(qr.documents) > 0
       /\ Contains(qr.documents[1].content, qr.query)

\* a substring one longer than the overlap that only the second of two
\* chunks contains
C22_Witness ==
    /\ qr.pc = "found"
    /\ chunk_size = 4
    /\ chunk_overlap = 2
    /\ text = <<"a", "a", "b", "a", "b", "b">>
    /\ qr.query = <<"b", "a", "b">>
    /\ qr.n_results = 1
    /\ Len(qr.documents) = 1
    /\ qr.documents[1].content = <<"b", "a", "b", "b">>

-----------------------------------------------------------------------------
(* Properties of add_document on PDF files, under Spec *)

\* C28: ingesting an existing .pdf file never ends as "no content": the
\* extractor is invoked and always yields text, for a PDF without
\* extractable text the marker string, which is chunked and written to the
\* store like any text; add_document makes its collection.add call, raises
\* only if that call raises, and returns a non-empty sequence whose records
\* are stored.
C28_PdfSentinelStored ==
    \A c \in CallIds :
        (Started(c) /\ Exists(call[c].path) /\ Lower(call[c].path.suffix) = ".pdf")
        => LET k == call[c]
           IN  /\ k.extracted
               /\ Len(k.chunks) >= 1
               /\ k.path \in {ScanPdf, BlankPdf}
                      => /\ Len(k.chunks) = 1
                         /\ k.chunks[1].content = <<UnableToExtract(Name(k.path))>>
               /\ k.pc = "raised" => k.err = StoreError
               /\ k.pc \in {"returned", "raised"} => Len(AddsOf(c)) >= 1
               /\ k.pc = "returned"
                      => /\ Len(k.ret) = Len(k.chunks)
                         /\ StoredOf(c) = FirstRecords(c, Len(k.chunks))

\* the zero-byte PDF ingested: one record that holds the marker
C28_Witness ==
    \E c \in CallIds :
        /\ call[c].pc = "returned"
        /\ call[c].path = ScanPdf
        /\ Len(call[c].ret) = 1
        /\ \E j \in 1..Len(store) :
               /\ store[j].id = call[c].ids[1]
               /\ store[j].document
                      = <<"[UNABLE TO EXTRACT TEXT FROM DOCUMENT: scan.pdf]">>

-----------------------------------------------------------------------------
(* Properties of _process_pdf, under SpecExtract *)

\* C24: processing a document never changes a process-wide setting (so
\* that what a later or concurrent request extracts depends on its own
\* input only).
C24_NoSharedSetting == [][load_truncated' = load_truncated]_vars

\* the pieces only the first strategy writes: its page and image tags
Tier1Only(t) == {t[k] : k \in 1..Len(t)} \ {"native text", "ocr text"}

\* C27: the strategies run in the order PyMuPDF, PyPDF2, rasterization; one
\* runs only if every earlier one raised or ended with the accumulated text
\* blank; after one has ended with text no later one runs; and what the
\* first had gathered before it raised is in neither the text the second
\* starts from nor the returned text.
C27_TierOrder ==
    ex.kind = "pdf"
    => LET names == <<"fitz", "pypdf", "ocr">>
           n == Len(ex.tiers)
       IN  /\ n <= 3
           /\ \A k \in 1..n : ex.tiers[k].tier = names[k]
           /\ \A k \in 2..n : \A j \in 1..(k - 1) :
                  /\ ex.tiers[j].outcome \in {"failed", "empty"}
                  /\ j = 2 => Blank(ex.tiers[j].gathered)
           /\ \A j \in 1..n :
                  ex.tiers[j].outcome = "text" => j = n /\ ex.pc = "done"
           /\ (n >= 1 /\ ex.tiers[1].outcome = "failed")
                  => /\ n >= 2 => ex.tiers[2].gathered
                                     = pypdf_tier(ex.doc.pypdf, <<>>, FALSE).text
                     /\ ex.pc = "done"
                            => \A x \in Tier1Only(ex.tiers[1].gathered) :
                                   ~Has(ex.result.text, x)

\* the first strategy raises on page 2 after it gathered page 1, and the
\* second returns text
C27_Witness ==
    /\ ex.kind = "pdf"
    /\ ex.pc = "done"
    /\ Len(ex.tiers) = 2
    /\ ex.tiers[1].outcome = "failed"
    /\ Has(ex.tiers[1].gathered, "[PAGE 1]")
    /\ ex.tiers[2].outcome = "text"
    /\ ex.result.kind = "returned"
    /\ Has(ex.result.text, "[PAGE 1 - PDF TEXT]")
    /\ ~Has(ex.result.text, "[PAGE 1]")

-----------------------------------------------------------------------------
(* Properties of the chunk metadata, under Spec *)

\* the time process read for call c: the calls of one service start in
\* their order, each at the next reading of the clock
ProcessingDate(c) == c - 1

\* C25 as stated: in every chunk record, whatever keys the caller's
\* metadata has, source is the file's name, file_type the extension without
\* its dot and processing_date the ingestion time, and every caller key
\* that collides with no field process writes is present unchanged.
C25_FileFieldsAlways ==
    \A c \in CallIds : \A k \in 1..Len(call[c].chunks) :
        LET m == call[c].chunks[k].metadata
            a == OrEmpty(call[c].arg)
        IN  /\ m.source = Name(call[c].path)
            /\ m.file_type = FileType(Lower(call[c].path.suffix))
            /\ m.processing_date = ProcessingDate(c)
            /\ \A key \in DOMAIN a \ {"source", "file_type", "processing_date",
                                        "chunk_id", "chunk_index", "total_chunks"} :
                   m[key] = a[key]

\* C25, amended: source, file_type and processing_date are the file's
\* name, the extension without its dot and the ingestion time unless the
\* caller's metadata has a key of that name, whose value is then stored
\* instead; every caller key other than chunk_id, chunk_index and
\* total_chunks is present unchanged.
C25_FileFieldsUnlessSupplied ==
    \A c \in CallIds : \A k \in 1..Len(call[c].chunks) :
        LET m == call[c].chunks[k].metadata
            a == OrEmpty(call[c].arg)
        IN  /\ "source" \notin DOMAIN a => m.source = Name(call[c].path)
            /\ "file_type" \notin DOMAIN a
                   => m.file_type = FileType(Lower(call[c].path.suffix))
            /\ "processing_date" \notin DOMAIN a
                   => m.processing_date = ProcessingDate(c)
            /\ \A key \in DOMAIN a \ {"chunk_id", "chunk_index", "total_chunks"} :
                   m[key] = a[key]

\* a file ingested with the upload route's metadata: the stored source is
\* the caller's, not the file's name
C25_Witness ==
    \E c \in CallIds :
        /\ call[c].pc = "returned"
        /\ call[c].path = LongTxt
        /\ call[c].arg = Some(UploadMeta)
        /\ \E j \in 1..Len(store) :
               /\ store[j].id = call[c].ids[1]
               /\ store[j].metadata.source = "web"
               /\ store[j].metadata.title = "Note"
               /\ store[j].metadata.file_type = "txt"

\* call c is on an existing file of a supported format whose extractor raises
ExtractorRaised(c) ==
    /\ Started(c)
    /\ Exists(call[c].path)
    /\ IsSupported(Lower(call[c].path.suffix))
    /\ ~Decodable(call[c].path)

\* process raised, with the cause in the error, produced no chunk, and
\* add_document wrote nothing to the store
FailedWithCause(c) ==
    /\ call[c].pc = "raised"
    /\ call[c].extracted
    /\ call[c].err.msg = "Failed to process document"
    /\ call[c].err.cause = "UnicodeDecodeError"
    /\ call[c].chunks = <<>>
    /\ call[c].ids = <<>>
    /\ AddsOf(c) = <<>>
    /\ StoredOf(c) = <<>>

\* C26 as stated: when the extractor selected for an existing, supported
\* file raises, process fails with ExtractionFailed carrying the cause, an
\* error that differs in kind from UnsupportedFormat, produces no chunks, and
\* add_document performs no store write.
C26_ExtractionFailedKind ==
    \A c \in CallIds :
        ExtractorRaised(c)
        => /\ FailedWithCause(c)
           /\ call[c].err.type # UnsupportedFormat.type

\* C26, amended: the error is a ValueError, the same kind as
\* UnsupportedFormat, and differs from it by its message only.
C26_ExtractionFailedMessage ==
    \A c \in CallIds :
        ExtractorRaised(c)
        => /\ FailedWithCause(c)
           /\ call[c].err.type = UnsupportedFormat.type
           /\ call[c].err.msg # UnsupportedFormat.msg

\* a file that is not valid UTF-8 and a file of an unsupported format, both
\* rejected with a ValueError
C26_Witness ==
    \E c, d \in CallIds :
        /\ call[c].path = BadTxt
        /\ call[c].pc = "raised"
        /\ call[c].err = ExtractionFailed("UnicodeDecodeError")
        /\ call[d].path = ToolExe
        /\ call[d].pc = "raised"
        /\ call[d].err = UnsupportedFormat
        /\ call[c].err.type = call[d].err.type

-----------------------------------------------------------------------------
(* SpecBatches: a file of three batches ingested once, and a file of one   *)
(* batch ingested by the other calls, by several service processes on one  *)
(* collection, their collection.add calls interleaved in every order (each *)
(* one atomic), with a query of another process at any point.  The         *)
(* processor cuts chunks of one character, so that three batches are a     *)
(* text of 201 characters.                                                 *)

\* a text of two batches and one chunk: the digits in turn
BatchText ==
    SubSeq([i \in 1..(2 * batch_size + 1) |-> Digit[((i - 1) % 10) + 1]],
           1, 2 * batch_size + 1)

BatchRequests == {<<AnyTxt, Some(CollidingMeta)>>, <<NoteTxt, Some(UploadMeta)>>}

\* the filters of the query: none, and the first chunk of a second batch
BatchFilters == {None, Some([chunk_index |-> batch_size])}

InitBatches ==
    /\ chunk_size = 1
    /\ chunk_overlap = 0
    /\ text = BatchText
    /\ store = <<>>
    /\ call = [c \in CallIds |-> IdleCall]
    /\ next_uuid = 0
    /\ add_log = <<>>
    /\ clock = 0
    /\ qr = StartAsk(<<>>)
    /\ InitExtIdle
    /\ InitDelIdle
    /\ cpc = "done"
    /\ start = 0
    /\ end = 0
    /\ chunks = <<>>
    /\ windows = <<>>

\* a query made while add_document calls of other processes are under way
QueryShared(s, n_results, flt) == AnswerSubstring(s, n_results, flt)

\* an add_document call of some process; the file of three batches is
\* ingested by one call only
AddDocumentBatches(c, p, arg) ==
    /\ p = AnyTxt => \A d \in CallIds : call[d].path # AnyTxt
    /\ AddDocumentShared(c, p, arg)

NextBatches ==
    \/ \E c \in CallIds, r \in BatchRequests : AddDocumentBatches(c, r[1], r[2])
    \/ \E c \in CallIds : CollectionAdd(c)
    \/ \E c \in CallIds : CollectionAddFails(c)
    \/ \E flt \in BatchFilters : QueryShared(<<"0">>, DefaultResults, flt)

SpecBatches == InitBatches /\ [][NextBatches]_vars

\* the number of collection.add calls of call c that succeeded
AddedBatches(c) == Len(SelectSeq(AddsOf(c), LAMBDA e : e.ok))

\* C30: at every point of an ingestion, under every interleaving with
\* queries and other ingestions, the chunks of the document in the store
\* are its first batches, whole and in chunk order; and a query that
\* returns a chunk of a document finds, in the collection it was answered
\* from, every chunk of that document up to the end of that chunk's batch.
C30_BatchPrefix ==
    /\ [](\A c \in CallIds :
            Started(c)
            => StoredOf(c) = FirstRecords(c, Min(Len(call[c].ids),
                                                 AddedBatches(c) * batch_size)))
    /\ [][(qr.pc = "start" /\ qr'.pc = "found")
            => \A i \in 1..Len(qr'.documents) : \A c \in CallIds :
                   \A k \in 1..Len(call[c].ids) :
                       call[c].ids[k] = qr'.documents[i].id
                       => \A j \in 1..Min(Len(call[c].ids),
                                          (((k - 1) \div batch_size) + 1) * batch_size) :
                              \E x \in 1..Len(store) : store[x].id = call[c].ids[j]
       ]_vars

\* a query answered with the first chunk of the second batch of a document
\* whose third batch is not stored yet
C30_Witness ==
    \E c \in CallIds :
        /\ call[c].pc = "adding"
        /\ call[c].i = 2 * batch_size
        /\ Len(call[c].ids) = 2 * batch_size + 1
        /\ Len(StoredOf(c)) = 2 * batch_size
        /\ qr.pc = "found"
        /\ Len(qr.documents) = 1
        /\ qr.documents[1].id = call[c].ids[batch_size + 1]

====
